---------------------------- MODULE Spec2Model ----------------------------
(***************************************************************************)
(* StreamChatWars: the Team membership and action pipeline.                *)
(*                                                                         *)
(* The model follows teams/team.py (Team), teams/functions.py (the router  *)
(* add_message_to_assigned_team) and _shared/global_data.py (the user to   *)
(* team registry GlobalData.Users).  Every team owns a bounded message     *)
(* queue and a bounded action queue, a translate loop and an execute loop; *)
(* the router runs on the chat thread.                                     *)
(***************************************************************************)
EXTENDS Integers, Sequences, FiniteSets, TLC

(***************************************************************************)
(* Bounds of the model.                                                    *)
(***************************************************************************)
\* capacity of both deques of a team (Team.__init__ queue_length, default 10)
QueueLength == 2
\* number of chat messages the chat thread delivers in one behaviour
MaxMsgs == 3
\* number of chat messages delivered when both teams run their loops, and
\* of add_message invocations in the run of direct invocations
MaxMsgsSmall == 1
\* number of chat messages delivered when two chat threads route
MaxMsgsRace == 2
\* number of chat messages delivered in the run with fair scheduling
MaxMsgsLive == 2
\* number of chat messages delivered when only the chat thread runs
MaxMsgsScan == 3
\* number of whole routing calls in the run of whole calls
MaxMsgsRoute == 2
\* number of chat messages while a team's InputServer call may hang
MaxMsgsIndep == 1
\* number of chat messages while teams are being stopped
MaxMsgsStop == 1
\* number of chat messages while random actions are toggled
MaxMsgsRandom == 1
\* number of chat messages routed to the Balancing teams
MaxMsgsBalance == 2
\* number of chat messages routed past the blacklist
MaxMsgsBlack == 2
\* number of verbs in a message handed to the translation
MaxVerbs == 2

(***************************************************************************)
(* Configuration: two teams in registration order, both exclusive (the     *)
(* default of Team.__init__).  The class of a team is chosen by Init.      *)
(***************************************************************************)
Teams == {"A", "B"}
TeamOrder == <<"A", "B">>
Users == {"u1", "u2"}
NoTeam == "NoTeam"
\* the None result of a translation
None == [kind |-> "None", key |-> ""]
Routers == {"r1", "r2"}

channels == [t \in Teams |-> IF t = "A" THEN {"#a"} ELSE {"#a", "#b"}]
Channels == {"#a", "#b"}
exclusive == [t \in Teams |-> TRUE]
joinable == [t \in Teams |-> TRUE]
leavable == [t \in Teams |-> t = "A"]
use_random_inputs == [t \in Teams |-> t = "A"]
hidden == [t \in Teams |-> FALSE]
\* NameRegex_Team: the users whose name the team's pattern matches in full
pattern == [t \in Teams |-> IF t = "A" THEN {"u1"} ELSE {"u2"}]
action_prefix == [t \in Teams |-> "+"]
\* GlobalData.Prefix.Action._action_prefixes, filled by the config module
action_prefixes == {action_prefix[t] : t \in Teams}

(***************************************************************************)
(* Chat messages.  A text is the sequence <<first character, rest>>, so    *)
(* that str.startswith(prefix) is a test of the first element.             *)
(***************************************************************************)
TxtLeft == <<"+", "left">>
TxtUnknown == <<"+", "zzz">>
TxtChat == <<"h", "i">>
Texts == {TxtLeft, TxtUnknown, TxtChat}
KnownVerbs == {"left"}
MsgIds == 1..(MaxMsgs + MaxMsgsSmall + MaxMsgsRace)
NoMsg == [id |-> 0, user |-> "", message |-> <<>>, channel |-> ""]

NoPair == [msg |-> NoMsg, func |-> None]

startswith(text, prefix) == Len(text) >= 1 /\ text[1] = prefix

\* GlobalData.Prefix.Action.message_is_action
message_is_action(msg) ==
  \E p \in action_prefixes : startswith(msg.message, p)

\* Actionset.message_is_command
message_is_command(t, msg) == startswith(msg.message, action_prefix[t])

\* MultiKey_BaseActionset.build_partial: None when no verb resolves
build_partial(text) ==
  IF Len(text) >= 2 /\ text[2] \in KnownVerbs
    THEN [kind |-> "press", key |-> text[2]]
    ELSE None

\* MultiKey_BaseActionset.translate_user_message_to_action
translate_user_message_to_action(t, msg) ==
  IF message_is_command(t, msg) THEN build_partial(msg.message) ELSE None

(***************************************************************************)
(* State.                                                                  *)
(***************************************************************************)
VARIABLES
  members,             \* Team.members
  registry,            \* GlobalData.Users._all_users_dict
  user_whitelist,      \* Team.user_whitelist (fixed users)
  user_blacklist,      \* Team.user_blacklist (fixed users)
  macros,              \* the macro names of the team's actionset
  message_queue,       \* Team.message_queue, newest last
  action_queue,        \* Team.action_queue, newest last
  message_queue_lock,  \* TRUE while the translate thread holds the lock
  action_queue_lock,   \* TRUE while the execute thread holds the lock
  keep_running,        \* Team.keep_running
  spam_protection,     \* Team.spam_protection (set at construction)
  team_class,          \* the variants the team's class inherits, in order
  accept_input,        \* GlobalEventStates.state_accept_input
  random_action,       \* GlobalEventStates.state_random_action
  tpc, tmsg, tfunc,    \* translate thread: position, popped msg, its action
  epc, efunc,          \* execute thread: position, the pair or fallback
  rt,                  \* router threads: position, message, candidate team
  nextId,              \* id of the next chat message
  refused,             \* the team's InputServer has refused a connection
  hist,                \* what happened to each message (observation only)
  ret,                 \* the last direct call: its arguments and its result
  ul,                  \* a UserList: its sets, its groups, its cache
  ul_nocache,          \* a UserList(cache_users=False) given the same calls
  actionset            \* a MultiKey actionset: its macros and macro file

vars == <<members, registry, user_whitelist, user_blacklist, macros,
          message_queue, action_queue, message_queue_lock, keep_running,
          spam_protection, team_class, accept_input, random_action, tpc,
          tmsg, tfunc,
          epc, efunc, rt, nextId, refused, hist, action_queue_lock, ret,
          ul, ul_nocache, actionset>>

libvars == <<ul, ul_nocache, actionset>>

teamvars == <<members, registry, user_whitelist, user_blacklist, macros>>
loopvars == <<tpc, tmsg, tfunc, epc, efunc>>
envvars == <<spam_protection, team_class, accept_input, random_action>>

RouterIdle == [pc |-> "idle", msg |-> NoMsg, team |-> NoTeam, scan |-> 0]

\* hist[i]: where message i went.
\*   queued: the team whose message queue it was appended to
\*   nil: popped and translated to None;  appended: pairs appended
\*   executed: times handed to InputServer.execute
\*   mdrop / adrop: dropped by message_queue.clear() / action_queue.clear()
\*   user, valid: the sender, and whether the text translates to an action
\*   fresh: the sender was in no team and not in the registry when queued
\*   spam: dropped by the spam scan of add_message
NoHist == [queued |-> NoTeam, user |-> "", valid |-> FALSE, fresh |-> FALSE,
           spam |-> FALSE, nil |-> FALSE, translated |-> 0, appended |-> 0, executed |-> 0,
           mdrop |-> FALSE, adrop |-> FALSE]

\* nothing was called yet
NoRet == [op |-> "", team |-> NoTeam, msg |-> NoMsg, value |-> FALSE,
          quad |-> [value |-> FALSE, maybe |-> FALSE],
          entry |-> [kind |-> "", name |-> "", group |-> "", chan |-> ""],
          tri |-> "", args |-> <<>>, out |-> <<>>, func |-> None]

Cap(n) == IF n >= 2 THEN 2 ELSE n + 1

(***************************************************************************)
(* deque(maxlen=queue_length).append: the oldest entry is evicted when     *)
(* the deque is full.                                                      *)
(***************************************************************************)
\* a list that grows without bound
list_append(q, x) == Append(q, x)

deque_append(q, x) ==
  LET q2 == Append(q, x)
  IN  IF Len(q2) > QueueLength THEN SubSeq(q2, 2, Len(q2)) ELSE q2

\* a deque read from the wrong end: popleft() instead of pop()
deque_popleft_value(q) == q[1]

\* deque.pop(): the rightmost (most recent) entry
deque_pop_value(q) == q[Len(q)]
\* a pop that reads the entry and leaves it in the deque
deque_pop_stays(q) == q
deque_pop_rest(q) == SubSeq(q, 1, Len(q) - 1)

Ids(q) == {q[i].id : i \in 1..Len(q)}

\* special groups of a UserList that are modelled: one that reads a tag
\* of the message, one that reads the channel only
GroupNames == {"$mods", "$users"}

\* UserList.__init_helper
UserList(cache) ==
  [cache_users |-> cache, known_users |-> {}, included_users |-> {},
   fixed_users |-> {},
   special_groups |-> [g \in GroupNames |-> {}]]

\* the keys of macro_dict: macro names without and with the action prefix
\* "+", and the key a name that itself starts with "+" gets
MacroKeys == {"m1", "+m1", "++m1"}

\* MultiKey_BaseActionset.__init__ with an empty macro file: macro_dict
\* maps a name to its list of verb parameters, <<>> for a missing name;
\* macro_file tells whether a file is configured, file_macros is the
\* 'macros' entry of that file
MultiKey_BaseActionset(allow, persistent) ==
  [allow_changing_macros |-> allow, persistent_macros |-> persistent,
   macro_dict |-> [k \in MacroKeys |-> <<>>],
   macro_file |-> persistent,
   file_macros |-> [k \in MacroKeys |-> <<>>]]

InitLibs ==
  /\ ul = UserList(TRUE)
  /\ actionset = MultiKey_BaseActionset(FALSE, FALSE)

InitState ==
  /\ members = [t \in Teams |-> {}]
  /\ registry = [u \in Users |-> NoTeam]
  /\ user_whitelist = [t \in Teams |-> {}]
  /\ user_blacklist = [t \in Teams |-> {}]
  /\ macros = [t \in Teams |-> {}]
  /\ message_queue = [t \in Teams |-> <<>>]
  /\ action_queue = [t \in Teams |-> <<>>]
  /\ message_queue_lock = [t \in Teams |-> FALSE]
  /\ action_queue_lock = [t \in Teams |-> FALSE]
  /\ keep_running = [t \in Teams |-> TRUE]
  /\ tmsg = [t \in Teams |-> NoMsg]
  /\ tfunc = [t \in Teams |-> None]
  /\ efunc = [t \in Teams |-> NoPair]
  /\ rt = [r \in Routers |-> RouterIdle]
  /\ nextId = 1
  /\ refused = [t \in Teams |-> FALSE]
  /\ hist = [i \in MsgIds |-> NoHist]
  /\ ul_nocache = UserList(FALSE)

InitCommon == InitState /\ InitLibs /\ ret = NoRet

(***************************************************************************)
(* Team: membership gates (teams/team.py).                                 *)
(***************************************************************************)
\* UserList.__contains__ for a message, fixed users only
message_in_list(list, msg) == msg.user \in list

\* Quadstate: <<boolean bit, uncertain bit>>
AbsolutelyTrue == [value |-> TRUE, maybe |-> FALSE]
MaybeTrue == [value |-> TRUE, maybe |-> TRUE]
AbsolutelyFalse == [value |-> FALSE, maybe |-> FALSE]
MaybeFalse == [value |-> FALSE, maybe |-> TRUE]
\* a truth test that reads the _MAYBE bit as well
bool_when_certain(q) == q.value /\ ~q.maybe
bool(q) == q.value
is_certain(q) == ~q.maybe

\* a base verdict that forgets the whitelist
Team_belongs_members_only(t, msg, mem, wl) ==
  IF msg.user \in mem[t] THEN AbsolutelyTrue ELSE MaybeFalse

\* Team._belongs_to_team of the base class
Team_belongs_to_team(t, msg, mem, wl) ==
  IF msg.user \in mem[t] \/ message_in_list(wl[t], msg)
    THEN AbsolutelyTrue
    ELSE MaybeFalse

\* the team's class inherits variant v (isinstance)
has_variant(t, v) == \E i \in 1..Len(team_class[t]) : team_class[t][i] = v

\* None_Team overrides both loops
is_None_Team(t) == has_variant(t, "None")

\* NameRegex_Team: self.regex.fullmatch(msg.user)
regex_fullmatch(t, user) == user \in pattern[t]

\* the variants that override _belongs_to_team
overrides_belongs_to_team == {"Default", "None", "NameRegex", "Balancing"}

\* a Balancing team that vouches whatever the member counts are
Balancing_always_vouches(t, mem) == MaybeTrue

\* Balancing_Team._belongs_to_team after the parent's uncertain verdict:
\* look for an unhidden Balancing team with less members
Balancing_belongs_to_team(t, mem) ==
  IF \E t2 \in Teams :
       /\ has_variant(t2, "Balancing")
       /\ ~hidden[t2]
       /\ Cardinality(mem[t2]) < Cardinality(mem[t])
    THEN AbsolutelyFalse
    ELSE MaybeTrue

\* the rule a variant applies after an uncertain verdict of its parent
own_belongs_to_team(v, t, msg, mem) ==
  CASE v = "Default" -> MaybeTrue
    [] v = "None" -> AbsolutelyFalse
    [] v = "NameRegex" ->
         IF regex_fullmatch(t, msg.user) THEN MaybeTrue ELSE AbsolutelyFalse
    [] v = "Balancing" -> Balancing_belongs_to_team(t, mem)

\* a chain whose variants short-circuit on `if super_result:` instead of
\* `if super_result.is_certain():`
RECURSIVE chain_belongs_if_true(_, _, _, _, _)
chain_belongs_if_true(cls, t, msg, mem, wl) ==
  IF cls = <<>>
    THEN Team_belongs_to_team(t, msg, mem, wl)
    ELSE LET super_result == chain_belongs_if_true(Tail(cls), t, msg, mem, wl)
         IN  IF Head(cls) \notin overrides_belongs_to_team
                  \/ bool(super_result)
               THEN super_result
               ELSE own_belongs_to_team(Head(cls), t, msg, mem)

\* _belongs_to_team along the method resolution order cls of a (combined)
\* class: super() is the next variant, the base Team comes last
RECURSIVE chain_belongs_to_team(_, _, _, _, _)
chain_belongs_to_team(cls, t, msg, mem, wl) ==
  IF cls = <<>>
    THEN Team_belongs_to_team(t, msg, mem, wl)
    ELSE LET super_result == chain_belongs_to_team(Tail(cls), t, msg, mem, wl)
         IN  IF Head(cls) \notin overrides_belongs_to_team
                  \/ is_certain(super_result)
               THEN super_result
               ELSE own_belongs_to_team(Head(cls), t, msg, mem)

\* _belongs_to_team of the team's class: the parent's verdict when certain
_belongs_to_team(t, msg, mem, wl) ==
  chain_belongs_to_team(team_class[t], t, msg, mem, wl)

\* Team.belongs_to_team
belongs_to_team(t, msg, mem, wl) == bool(_belongs_to_team(t, msg, mem, wl))

\* an exclusion check that forgets the other exclusive team
blocked_from_team_blacklist_only(t, msg, reg, bl) ==
  message_in_list(bl[t], msg)

\* Team.blocked_from_team: the verdict ...
blocked_from_team(t, msg, reg, bl) ==
  \/ message_in_list(bl[t], msg)
  \/ (exclusive[t] /\ reg[msg.user] # NoTeam /\ reg[msg.user] # t)

\* a call that forgets to kick the blocked member out
blocked_members_keep(t, msg, mem, reg, bl) == mem

\* ... and its side effect: an illegitimate member is kicked out
blocked_members(t, msg, mem, reg, bl) ==
  IF blocked_from_team(t, msg, reg, bl) /\ msg.user \in mem[t]
    THEN [mem EXCEPT ![t] = @ \ {msg.user}]
    ELSE mem

\* a call that kicks the member out and keeps the registry entry
blocked_registry_keep(t, msg, mem, reg, bl) == reg

blocked_registry(t, msg, mem, reg, bl) ==
  IF blocked_from_team(t, msg, reg, bl) /\ msg.user \in mem[t]
    THEN [reg EXCEPT ![msg.user] = NoTeam]
    ELSE reg

\* Whitelist_Team.blocked_from_team, after super() did not block
own_blocked_from_team(v, t, msg, mem, wl) ==
  /\ v = "Whitelist"
  /\ ~(msg.user \in mem[t] \/ message_in_list(wl[t], msg))

\* blocked_from_team along the method resolution order cls
RECURSIVE chain_blocked_from_team(_, _, _, _, _, _, _)
chain_blocked_from_team(cls, t, msg, mem, reg, wl, bl) ==
  IF cls = <<>>
    THEN blocked_from_team(t, msg, reg, bl)
    ELSE \/ chain_blocked_from_team(Tail(cls), t, msg, mem, reg, wl, bl)
         \/ own_blocked_from_team(Head(cls), t, msg, mem, wl)

\* blocked_from_team of the team's class
class_blocked_from_team(t, msg, mem, reg, wl, bl) ==
  chain_blocked_from_team(team_class[t], t, msg, mem, reg, wl, bl)

\* a spam scan that looks at the newest queued message only
is_spam_newest_only(t, msg) ==
  /\ spam_protection[t]
  /\ message_queue[t] # <<>>
  /\ msg.user = message_queue[t][Len(message_queue[t])].user
  /\ msg.message = message_queue[t][Len(message_queue[t])].message

\* Team.add_message, the part under message_queue_lock: the spam scan
is_spam(t, msg) ==
  /\ spam_protection[t]
  /\ \E i \in 1..Len(message_queue[t]) :
       /\ msg.user = message_queue[t][i].user
       /\ msg.message = message_queue[t][i].message

\* observation: message msg was appended to the message queue of t
Queued(h, t, msg) ==
  [h EXCEPT !.queued = t, !.user = msg.user,
            !.valid = (translate_user_message_to_action(t, msg) # None),
            !.fresh = (registry[msg.user] = NoTeam
                       /\ \A t2 \in Teams : msg.user \notin members[t2])]

\* Team.add_message, the part after the lock is released
add_members(t, msg, mem) ==
  IF exclusive[t] /\ msg.user \notin mem[t]
    THEN [mem EXCEPT ![t] = @ \cup {msg.user}]
    ELSE mem

\* an admission that forgets GlobalData.Users.add
add_registry_forget(t, msg, mem, reg) == reg

add_registry(t, msg, mem, reg) ==
  IF exclusive[t] /\ msg.user \notin mem[t]
    THEN [reg EXCEPT ![msg.user] = t]
    ELSE reg

(***************************************************************************)
(* Team: the translate loop (continously_translate_messages).  The loop    *)
(* of None_Team only sleeps while keep_running.                            *)
(***************************************************************************)
\* a loop that drains the message queue before it honours the flag
T_loop_drain(t) ==
  /\ tpc[t] = "loop"
  /\ tpc' = [tpc EXCEPT ![t] =
               IF ~keep_running[t] /\ message_queue[t] = <<>> THEN "done"
               ELSE IF is_None_Team(t) THEN "loop"
               ELSE "pop"]
  /\ UNCHANGED <<action_queue_lock, ret, libvars>>
  /\ UNCHANGED <<teamvars, envvars, message_queue, action_queue,
                 message_queue_lock, keep_running, tmsg, tfunc, epc, efunc,
                 rt, nextId, refused, hist>>

T_loop(t) ==
  /\ tpc[t] = "loop"
  /\ tpc' = [tpc EXCEPT ![t] = IF ~keep_running[t] THEN "done"
                                ELSE IF is_None_Team(t) THEN "loop"
                                ELSE "pop"]
  /\ UNCHANGED <<action_queue_lock, ret, libvars>>
  /\ UNCHANGED <<teamvars, envvars, message_queue, action_queue,
                 message_queue_lock, keep_running, tmsg, tfunc, epc, efunc,
                 rt, nextId, refused, hist>>

\* a translate step that pops under the lock and releases it before the
\* translation
T_pop_unlocked(t) ==
  /\ tpc[t] = "pop"
  /\ ~message_queue_lock[t]
  /\ IF message_queue[t] = <<>>
       THEN /\ tpc' = [tpc EXCEPT ![t] = "loop"]
            /\ UNCHANGED <<message_queue, tmsg>>
       ELSE /\ tmsg' = [tmsg EXCEPT ![t] = deque_pop_value(message_queue[t])]
            /\ message_queue' =
                 [message_queue EXCEPT ![t] = deque_pop_rest(@)]
            /\ tpc' = [tpc EXCEPT ![t] = "translate"]
  /\ UNCHANGED <<action_queue_lock, ret, libvars>>
  /\ UNCHANGED <<teamvars, envvars, action_queue, message_queue_lock,
                 keep_running, tfunc, epc, efunc, rt, nextId, refused, hist>>

\* with message_queue_lock: msg = message_queue.pop();  IndexError: sleep
T_pop(t) ==
  /\ tpc[t] = "pop"
  /\ ~message_queue_lock[t]
  /\ IF message_queue[t] = <<>>
       THEN /\ tpc' = [tpc EXCEPT ![t] = "loop"]
            /\ UNCHANGED <<message_queue, message_queue_lock, tmsg>>
       ELSE /\ message_queue_lock' = [message_queue_lock EXCEPT ![t] = TRUE]
            /\ tmsg' = [tmsg EXCEPT ![t] = deque_pop_value(message_queue[t])]
            /\ message_queue' =
                 [message_queue EXCEPT ![t] = deque_pop_rest(@)]
            /\ tpc' = [tpc EXCEPT ![t] = "translate"]
  /\ UNCHANGED <<action_queue_lock, ret, libvars>>
  /\ UNCHANGED <<teamvars, envvars, action_queue, keep_running, tfunc, epc,
                 efunc, rt, nextId, refused, hist>>

\* a translate step whose early return keeps message_queue_lock
T_translate_hold(t) ==
  /\ tpc[t] = "translate"
  /\ LET func == translate_user_message_to_action(t, tmsg[t])
         i == tmsg[t].id
     IN  IF func = None
           THEN /\ tpc' = [tpc EXCEPT ![t] = "loop"]
                /\ tmsg' = [tmsg EXCEPT ![t] = NoMsg]
                /\ hist' = [hist EXCEPT ![i].nil = TRUE,
                                        ![i].translated = Cap(@)]
                /\ UNCHANGED <<tfunc, message_queue_lock>>
           ELSE /\ tfunc' = [tfunc EXCEPT ![t] = func]
                /\ tpc' = [tpc EXCEPT ![t] = "append"]
                /\ hist' = [hist EXCEPT ![i].translated = Cap(@)]
                /\ UNCHANGED <<message_queue_lock, tmsg>>
  /\ UNCHANGED <<action_queue_lock, ret, libvars>>
  /\ UNCHANGED <<teamvars, envvars, message_queue, action_queue,
                 keep_running, epc, efunc, rt, nextId, refused>>

\* a translate step that clears the message queue also after a None result
T_translate_clear(t) ==
  /\ tpc[t] = "translate"
  /\ LET func == translate_user_message_to_action(t, tmsg[t])
         i == tmsg[t].id
     IN  IF func = None
           THEN /\ message_queue_lock' =
                     [message_queue_lock EXCEPT ![t] = FALSE]
                /\ message_queue' = [message_queue EXCEPT ![t] = <<>>]
                /\ tpc' = [tpc EXCEPT ![t] = "loop"]
                /\ tmsg' = [tmsg EXCEPT ![t] = NoMsg]
                /\ hist' = [hist EXCEPT ![i].nil = TRUE,
                                        ![i].translated = Cap(@)]
                /\ UNCHANGED tfunc
           ELSE /\ tfunc' = [tfunc EXCEPT ![t] = func]
                /\ tpc' = [tpc EXCEPT ![t] = "append"]
                /\ hist' = [hist EXCEPT ![i].translated = Cap(@)]
                /\ UNCHANGED <<message_queue_lock, message_queue, tmsg>>
  /\ UNCHANGED <<action_queue_lock, ret, libvars>>
  /\ UNCHANGED <<teamvars, envvars, action_queue, keep_running, epc, efunc,
                 rt, nextId, refused>>

\* func = translate_user_message_to_action(msg); if func is None: return
T_translate(t) ==
  /\ tpc[t] = "translate"
  /\ LET func == translate_user_message_to_action(t, tmsg[t])
         i == tmsg[t].id
     IN  IF func = None
           THEN /\ message_queue_lock' =
                     [message_queue_lock EXCEPT ![t] = FALSE]
                /\ tpc' = [tpc EXCEPT ![t] = "loop"]
                /\ tmsg' = [tmsg EXCEPT ![t] = NoMsg]
                /\ hist' = [hist EXCEPT ![i].nil = TRUE,
                                        ![i].translated = Cap(@)]
                /\ UNCHANGED tfunc
           ELSE /\ tfunc' = [tfunc EXCEPT ![t] = func]
                /\ tpc' = [tpc EXCEPT ![t] = "append"]
                /\ hist' = [hist EXCEPT ![i].translated = Cap(@)]
                /\ UNCHANGED <<message_queue_lock, tmsg>>
  /\ UNCHANGED <<action_queue_lock, ret, libvars>>
  /\ UNCHANGED <<teamvars, envvars, message_queue, action_queue,
                 keep_running, epc, efunc, rt, nextId, refused>>

\* with action_queue_lock: action_queue.append((msg, func))
T_append(t) ==
  /\ tpc[t] = "append"
  /\ ~action_queue_lock[t]
  /\ action_queue' =
       [action_queue EXCEPT
          ![t] = deque_append(@, [msg |-> tmsg[t], func |-> tfunc[t]])]
  /\ hist' = [hist EXCEPT ![tmsg[t].id].appended = Cap(@)]
  /\ tpc' = [tpc EXCEPT ![t] = "clear"]
  /\ UNCHANGED <<action_queue_lock, ret, libvars>>
  /\ UNCHANGED <<teamvars, envvars, message_queue, message_queue_lock,
                 keep_running, tmsg, tfunc, epc, efunc, rt, nextId, refused>>

\* a translate step that forgets message_queue.clear()
T_clear_keep(t) ==
  /\ tpc[t] = "clear"
  /\ message_queue_lock' = [message_queue_lock EXCEPT ![t] = FALSE]
  /\ tpc' = [tpc EXCEPT ![t] = "loop"]
  /\ tmsg' = [tmsg EXCEPT ![t] = NoMsg]
  /\ tfunc' = [tfunc EXCEPT ![t] = None]
  /\ UNCHANGED <<action_queue_lock, ret, libvars>>
  /\ UNCHANGED <<teamvars, envvars, message_queue, action_queue,
                 keep_running, epc, efunc, rt, nextId, refused, hist>>

\* message_queue.clear(), then the lock is released
T_clear(t) ==
  /\ tpc[t] = "clear"
  /\ message_queue' = [message_queue EXCEPT ![t] = <<>>]
  /\ message_queue_lock' = [message_queue_lock EXCEPT ![t] = FALSE]
  /\ hist' = [i \in MsgIds |->
                IF i \in Ids(message_queue[t])
                  THEN [hist[i] EXCEPT !.mdrop = TRUE]
                  ELSE hist[i]]
  /\ tpc' = [tpc EXCEPT ![t] = "loop"]
  /\ tmsg' = [tmsg EXCEPT ![t] = NoMsg]
  /\ tfunc' = [tfunc EXCEPT ![t] = None]
  /\ UNCHANGED <<action_queue_lock, ret, libvars>>
  /\ UNCHANGED <<teamvars, envvars, action_queue, keep_running, epc, efunc,
                 rt, nextId, refused>>

(***************************************************************************)
(* Team: the execute loop (continously_execute_actions).                   *)
(***************************************************************************)
\* a fallback that is random as soon as one of the two switches is on
empty_queue_action_either(t) ==
  IF use_random_inputs[t] \/ random_action
    THEN [msg |-> NoMsg, func |-> [kind |-> "random", key |-> ""]]
    ELSE [msg |-> NoMsg, func |-> [kind |-> "sleep", key |-> ""]]

\* Team.empty_queue_action
empty_queue_action(t) ==
  IF use_random_inputs[t] /\ random_action
    THEN [msg |-> NoMsg, func |-> [kind |-> "random", key |-> ""]]
    ELSE [msg |-> NoMsg, func |-> [kind |-> "sleep", key |-> ""]]

\* while self.keep_running: enter _execute_queued_action and take
\* action_queue_lock
E_loop(t) ==
  /\ epc[t] = "loop"
  /\ ~action_queue_lock[t]
  /\ epc' = [epc EXCEPT ![t] = IF ~keep_running[t] THEN "done"
                                ELSE IF is_None_Team(t) THEN "loop"
                                ELSE "pop"]
  /\ action_queue_lock' =
       [action_queue_lock EXCEPT
          ![t] = keep_running[t] /\ ~is_None_Team(t)]
  /\ UNCHANGED <<ret, libvars>>
  /\ UNCHANGED <<teamvars, envvars, message_queue, action_queue,
                 message_queue_lock, keep_running, tpc, tmsg, tfunc, efunc,
                 rt, nextId, refused, hist>>

\* an execute step that forgets action_queue.clear()
E_pop_keep(t) ==
  /\ epc[t] = "pop"
  /\ action_queue_lock[t]
  /\ IF action_queue[t] = <<>>
       THEN /\ efunc' = [efunc EXCEPT ![t] = empty_queue_action(t)]
            /\ UNCHANGED action_queue
       ELSE /\ efunc' = [efunc EXCEPT ![t] = deque_pop_value(action_queue[t])]
            /\ action_queue' = [action_queue EXCEPT ![t] = deque_pop_rest(@)]
  /\ epc' = [epc EXCEPT ![t] = "execute"]
  /\ action_queue_lock' = [action_queue_lock EXCEPT ![t] = FALSE]
  /\ UNCHANGED <<ret, libvars>>
  /\ UNCHANGED <<teamvars, envvars, message_queue, message_queue_lock,
                 keep_running, tpc, tmsg, tfunc, rt, nextId, refused, hist>>

\* an execute step that calls InputServer.execute inside the with block
E_pop_locked(t) ==
  /\ epc[t] = "pop"
  /\ action_queue_lock[t]
  /\ IF action_queue[t] = <<>>
       THEN /\ efunc' = [efunc EXCEPT ![t] = empty_queue_action(t)]
            /\ UNCHANGED <<action_queue, hist>>
       ELSE /\ efunc' = [efunc EXCEPT ![t] = deque_pop_value(action_queue[t])]
            /\ action_queue' = [action_queue EXCEPT ![t] = <<>>]
            /\ hist' = [i \in MsgIds |->
                          IF \E k \in 1..(Len(action_queue[t]) - 1) :
                               action_queue[t][k].msg.id = i
                            THEN [hist[i] EXCEPT !.adrop = TRUE]
                            ELSE hist[i]]
  /\ epc' = [epc EXCEPT ![t] = "execute"]
  /\ UNCHANGED <<action_queue_lock, ret, libvars>>
  /\ UNCHANGED <<teamvars, envvars, message_queue, message_queue_lock,
                 keep_running, tpc, tmsg, tfunc, rt, nextId, refused>>

\* under action_queue_lock: pop the most recent pair, log it, clear the
\* rest, release the lock;  IndexError: func = empty_queue_action()
E_pop(t) ==
  /\ epc[t] = "pop"
  /\ action_queue_lock[t]
  /\ IF action_queue[t] = <<>>
       THEN /\ efunc' = [efunc EXCEPT ![t] = empty_queue_action(t)]
            /\ UNCHANGED <<action_queue, hist>>
       ELSE /\ efunc' = [efunc EXCEPT ![t] = deque_pop_value(action_queue[t])]
            /\ action_queue' = [action_queue EXCEPT ![t] = <<>>]
            /\ hist' = [i \in MsgIds |->
                          IF \E k \in 1..(Len(action_queue[t]) - 1) :
                               action_queue[t][k].msg.id = i
                            THEN [hist[i] EXCEPT !.adrop = TRUE]
                            ELSE hist[i]]
  /\ epc' = [epc EXCEPT ![t] = "execute"]
  /\ action_queue_lock' = [action_queue_lock EXCEPT ![t] = FALSE]
  /\ UNCHANGED <<ret, libvars>>
  /\ UNCHANGED <<teamvars, envvars, message_queue, message_queue_lock,
                 keep_running, tpc, tmsg, tfunc, rt, nextId, refused>>

Executed(h, pair) ==
  IF pair.msg.id = 0 THEN h
  ELSE [h EXCEPT ![pair.msg.id].executed = Cap(@)]

\* an InputServer that serves one team at a time
E_execute_serial(t) ==
  /\ epc[t] = "execute"
  /\ \A o \in Teams \ {t} : epc[o] # "execute"
  /\ hist' = Executed(hist, efunc[t])
  /\ efunc' = [efunc EXCEPT ![t] = NoPair]
  /\ epc' = [epc EXCEPT ![t] = "loop"]
  /\ UNCHANGED <<action_queue_lock, ret, libvars>>
  /\ UNCHANGED <<teamvars, envvars, message_queue, action_queue,
                 message_queue_lock, keep_running, tpc, tmsg, tfunc, rt,
                 nextId, refused>>

\* self.actionset.input_server.execute(func) returns
E_execute(t) ==
  /\ epc[t] = "execute"
  /\ hist' = Executed(hist, efunc[t])
  /\ efunc' = [efunc EXCEPT ![t] = NoPair]
  /\ epc' = [epc EXCEPT ![t] = "loop"]
  /\ UNCHANGED <<action_queue_lock, ret, libvars>>
  /\ UNCHANGED <<teamvars, envvars, message_queue, action_queue,
                 message_queue_lock, keep_running, tpc, tmsg, tfunc, rt,
                 nextId, refused>>

\* a handler that logs the refused connection and keeps the loop running
E_refused_retry(t) ==
  /\ epc[t] = "execute"
  /\ hist' = Executed(hist, efunc[t])
  /\ refused' = [refused EXCEPT ![t] = TRUE]
  /\ efunc' = [efunc EXCEPT ![t] = NoPair]
  /\ epc' = [epc EXCEPT ![t] = "loop"]
  /\ UNCHANGED <<action_queue_lock, ret, libvars>>
  /\ UNCHANGED <<teamvars, envvars, message_queue, action_queue,
                 message_queue_lock, keep_running, tpc, tmsg, tfunc, rt,
                 nextId>>

\* self.actionset.input_server.execute(func) raises ConnectionRefusedError
E_refused(t) ==
  /\ epc[t] = "execute"
  /\ hist' = Executed(hist, efunc[t])
  /\ keep_running' = [keep_running EXCEPT ![t] = FALSE]
  /\ refused' = [refused EXCEPT ![t] = TRUE]
  /\ efunc' = [efunc EXCEPT ![t] = NoPair]
  /\ epc' = [epc EXCEPT ![t] = "loop"]
  /\ UNCHANGED <<action_queue_lock, ret, libvars>>
  /\ UNCHANGED <<teamvars, envvars, message_queue, action_queue,
                 message_queue_lock, tpc, tmsg, tfunc, rt, nextId>>

\* Team.stop_thread
stop_thread(t) ==
  /\ keep_running[t]
  /\ keep_running' = [keep_running EXCEPT ![t] = FALSE]
  /\ UNCHANGED <<action_queue_lock, ret, libvars>>
  /\ UNCHANGED <<teamvars, envvars, message_queue, action_queue,
                 message_queue_lock, loopvars, rt, nextId, refused,
                 hist>>

(***************************************************************************)
(* The router (teams/functions.py), one step per call it makes.            *)
(***************************************************************************)
\* __add_message_to_team: the condition, evaluated left to right
accepts(t, msg, mem, reg, wl, bl) ==
  /\ msg.channel \in channels[t]
  /\ message_is_command(t, msg)
  /\ ~class_blocked_from_team(t, msg, mem, reg, wl, bl)
  /\ belongs_to_team(t, msg, mem, wl)

\* blocked_from_team is only called when the first two conjuncts hold
reaches_blocked(t, msg) ==
  msg.channel \in channels[t] /\ message_is_command(t, msg)

\* a scan that jumps to the last registered team
next_candidate_last(st) ==
  IF st.scan < Len(TeamOrder)
    THEN [st EXCEPT !.team = TeamOrder[Len(TeamOrder)],
                    !.scan = Len(TeamOrder)]
    ELSE RouterIdle

\* the candidate after a failed attempt: the scan starts after the fast
\* path and walks the teams in registration order
next_candidate(st) ==
  IF st.scan < Len(TeamOrder)
    THEN [st EXCEPT !.team = TeamOrder[st.scan + 1], !.scan = st.scan + 1]
    ELSE RouterIdle

\* add_message_to_assigned_team: the guard and the registry lookup
R_receive(r, limit) ==
  /\ rt[r].pc = "idle"
  /\ nextId <= limit
  /\ \E u \in Users, txt \in Texts, ch \in Channels :
       LET msg == [id |-> nextId, user |-> u, message |-> txt, channel |-> ch]
       IN  rt' = [rt EXCEPT ![r] =
                   IF accept_input /\ message_is_action(msg)
                     THEN IF registry[u] # NoTeam
                            THEN [pc |-> "check", msg |-> msg,
                                  team |-> registry[u], scan |-> 0]
                            ELSE [pc |-> "check", msg |-> msg,
                                  team |-> TeamOrder[1], scan |-> 1]
                     ELSE RouterIdle]
  /\ nextId' = nextId + 1
  /\ UNCHANGED <<action_queue_lock, ret, libvars>>
  /\ UNCHANGED <<teamvars, envvars, message_queue, action_queue,
                 message_queue_lock, keep_running, loopvars, refused,
                 hist>>

\* __add_message_to_team up to the call of team.add_message
R_check(r) ==
  /\ rt[r].pc = "check"
  /\ LET t == rt[r].team
         msg == rt[r].msg
     IN  /\ members' = IF reaches_blocked(t, msg)
                         THEN blocked_members(t, msg, members, registry,
                                              user_blacklist)
                         ELSE members
         /\ registry' = IF reaches_blocked(t, msg)
                          THEN blocked_registry(t, msg, members, registry,
                                                user_blacklist)
                          ELSE registry
         /\ rt' = [rt EXCEPT ![r] =
                     IF accepts(t, msg, members, registry, user_whitelist,
                                user_blacklist)
                       THEN [@ EXCEPT !.pc = "enqueue"]
                       ELSE next_candidate(@)]
  /\ UNCHANGED <<action_queue_lock, ret, libvars>>
  /\ UNCHANGED <<user_whitelist, user_blacklist, macros, envvars,
                 message_queue, action_queue, message_queue_lock,
                 keep_running, loopvars, nextId, refused, hist>>

\* Team.add_message under message_queue_lock: spam scan, append
R_enqueue(r) ==
  /\ rt[r].pc = "enqueue"
  /\ ~message_queue_lock[rt[r].team]
  /\ LET t == rt[r].team
         msg == rt[r].msg
     IN  IF is_spam(t, msg)
           THEN /\ rt' = [rt EXCEPT ![r] = RouterIdle]
                /\ hist' = [hist EXCEPT ![msg.id].spam = TRUE]
                /\ UNCHANGED message_queue
           ELSE /\ message_queue' =
                     [message_queue EXCEPT ![t] = deque_append(@, msg)]
                /\ hist' = [hist EXCEPT ![msg.id] = Queued(@, t, msg)]
                /\ rt' = [rt EXCEPT ![r].pc = "member"]
  /\ UNCHANGED <<action_queue_lock, ret, libvars>>
  /\ UNCHANGED <<teamvars, envvars, action_queue, message_queue_lock,
                 keep_running, loopvars, nextId, refused>>

\* Team.add_message after the lock: members.add and GlobalData.Users.add
R_member(r) ==
  /\ rt[r].pc = "member"
  /\ members' = add_members(rt[r].team, rt[r].msg, members)
  /\ registry' = add_registry(rt[r].team, rt[r].msg, members, registry)
  /\ rt' = [rt EXCEPT ![r] = RouterIdle]
  /\ UNCHANGED <<action_queue_lock, ret, libvars>>
  /\ UNCHANGED <<user_whitelist, user_blacklist, macros, envvars,
                 message_queue, action_queue, message_queue_lock,
                 keep_running, loopvars, nextId, refused, hist>>

(***************************************************************************)
(* The pipeline: the chat thread routes, every team translates and         *)
(* executes.                                                               *)
(***************************************************************************)
Init ==
  /\ InitCommon
  /\ tpc = [t \in Teams |-> "loop"]
  /\ epc = [t \in Teams |-> "loop"]
  /\ spam_protection \in [Teams -> BOOLEAN]
  /\ spam_protection["B"]
  /\ team_class = [t \in Teams |->
                     IF t = "A" THEN <<"Default">> ELSE <<"None">>]
  /\ accept_input = TRUE
  /\ random_action = FALSE

Next ==
  \/ R_receive("r1", MaxMsgs)
  \/ R_check("r1")
  \/ R_enqueue("r1")
  \/ R_member("r1")
  \/ \E t \in Teams : T_loop(t)
  \/ \E t \in Teams : T_pop(t)
  \/ \E t \in Teams : T_translate(t)
  \/ \E t \in Teams : T_append(t)
  \/ \E t \in Teams : T_clear(t)
  \/ \E t \in Teams : E_loop(t)
  \/ \E t \in Teams : E_pop(t)
  \/ \E t \in Teams : E_execute(t)
  \/ \E t \in Teams : E_refused(t)

Spec == Init /\ [][Next]_vars

(***************************************************************************)
(* Two Default teams, both with running loops, and a team may be stopped.  *)
(***************************************************************************)
InitTwo ==
  /\ InitCommon
  /\ tpc = [t \in Teams |-> "loop"]
  /\ epc = [t \in Teams |-> "loop"]
  /\ spam_protection = [t \in Teams |-> TRUE]
  /\ team_class = [t \in Teams |-> <<"Default">>]
  /\ accept_input = TRUE
  /\ random_action = FALSE

NextTwo ==
  \/ R_receive("r1", MaxMsgsSmall)
  \/ R_check("r1")
  \/ R_enqueue("r1")
  \/ R_member("r1")
  \/ \E t \in Teams : T_loop(t)
  \/ \E t \in Teams : T_pop(t)
  \/ \E t \in Teams : T_translate(t)
  \/ \E t \in Teams : T_append(t)
  \/ \E t \in Teams : T_clear(t)
  \/ \E t \in Teams : E_loop(t)
  \/ \E t \in Teams : E_pop(t)
  \/ \E t \in Teams : E_execute(t)
  \/ \E t \in Teams : E_refused(t)
  \/ \E t \in Teams : stop_thread(t)

SpecTwo == InitTwo /\ [][NextTwo]_vars

(***************************************************************************)
(* Two chat threads route concurrently.                                    *)
(***************************************************************************)
NextRace ==
  \/ \E r \in Routers : R_receive(r, MaxMsgsRace)
  \/ \E r \in Routers : R_check(r)
  \/ \E r \in Routers : R_enqueue(r)
  \/ \E r \in Routers : R_member(r)
  \/ \E t \in Teams : T_loop(t)
  \/ \E t \in Teams : T_pop(t)
  \/ \E t \in Teams : T_translate(t)
  \/ \E t \in Teams : T_append(t)
  \/ \E t \in Teams : T_clear(t)
  \/ \E t \in Teams : E_loop(t)
  \/ \E t \in Teams : E_pop(t)
  \/ \E t \in Teams : E_execute(t)

SpecRace == InitTwo /\ [][NextRace]_vars

(***************************************************************************)
(* Direct calls of the Team interface from one thread (the chat command    *)
(* layer and load_snapshot); the loops are not started.                    *)
(***************************************************************************)
MacroNames == {"m1"}
Snapshots ==
  { [members |-> {}, whitelist |-> {}, blacklist |-> {}, macros |-> {}],
    [members |-> {"u1"}, whitelist |-> {}, blacklist |-> {"u2"},
     macros |-> {"m1"}],
    [members |-> {"u1", "u2"}, whitelist |-> {"u1"}, blacklist |-> {},
     macros |-> {}] }

\* Team.add_message(msg), the whole call
add_message(t) ==
  /\ nextId <= MaxMsgsSmall
  /\ \E u \in Users, txt \in {TxtLeft, TxtUnknown} :
       LET msg == [id |-> nextId, user |-> u, message |-> txt,
                   channel |-> "#a"]
       IN  IF is_spam(t, msg)
             THEN /\ hist' = [hist EXCEPT ![msg.id].spam = TRUE]
                  /\ UNCHANGED <<message_queue, members, registry>>
             ELSE /\ message_queue' =
                       [message_queue EXCEPT ![t] = deque_append(@, msg)]
                  /\ hist' = [hist EXCEPT ![msg.id] = Queued(@, t, msg)]
                  /\ members' = add_members(t, msg, members)
                  /\ registry' = add_registry(t, msg, members, registry)
  /\ nextId' = nextId + 1
  /\ UNCHANGED <<action_queue_lock, ret, libvars>>
  /\ UNCHANGED <<user_whitelist, user_blacklist, macros, envvars,
                 action_queue, message_queue_lock, keep_running, loopvars,
                 rt, refused>>

\* Team.blocked_from_team(msg), the whole call
call_blocked_from_team(t) ==
  /\ \E u \in Users :
       LET msg == [NoMsg EXCEPT !.user = u]
       IN  /\ members' = blocked_members(t, msg, members, registry,
                                         user_blacklist)
           /\ registry' = blocked_registry(t, msg, members, registry,
                                           user_blacklist)
           /\ ret' = [NoRet EXCEPT
                        !.op = "blocked_from_team", !.team = t, !.msg = msg,
                        !.value = class_blocked_from_team(
                                    t, msg, members, registry,
                                    user_whitelist, user_blacklist)]
  /\ UNCHANGED <<action_queue_lock, libvars>>
  /\ UNCHANGED <<user_whitelist, user_blacklist, macros, envvars,
                 message_queue, action_queue, message_queue_lock,
                 keep_running, loopvars, rt, nextId, refused, hist>>

\* Team.belongs_to_team(msg), the whole call
call_belongs_to_team(t) ==
  /\ \E u \in Users :
       LET msg == [NoMsg EXCEPT !.user = u]
           result == _belongs_to_team(t, msg, members, user_whitelist)
       IN  ret' = [NoRet EXCEPT
                     !.op = "belongs_to_team", !.team = t, !.msg = msg,
                     !.value = bool(result), !.quad = result]
  /\ UNCHANGED <<action_queue_lock, libvars>>
  /\ UNCHANGED <<teamvars, envvars, message_queue, action_queue,
                 message_queue_lock, keep_running, loopvars, rt, nextId,
                 refused, hist>>

\* Team.join_team(user)
join_team(t) ==
  /\ \E u \in Users :
       IF joinable[t] /\ exclusive[t]
         THEN /\ members' = [members EXCEPT ![t] = @ \cup {u}]
              /\ registry' = [registry EXCEPT ![u] = t]
         ELSE UNCHANGED <<members, registry>>
  /\ UNCHANGED <<action_queue_lock, ret, libvars>>
  /\ UNCHANGED <<user_whitelist, user_blacklist, macros, envvars,
                 message_queue, action_queue, message_queue_lock,
                 keep_running, loopvars, rt, nextId, refused, hist>>

\* Team.leave_team(user): members.remove raises KeyError for a non-member
leave_team(t) ==
  /\ \E u \in Users :
       IF leavable[t] /\ u \in members[t]
         THEN /\ members' = [members EXCEPT ![t] = @ \ {u}]
              /\ registry' = [registry EXCEPT ![u] = NoTeam]
         ELSE UNCHANGED <<members, registry>>
  /\ UNCHANGED <<action_queue_lock, ret, libvars>>
  /\ UNCHANGED <<user_whitelist, user_blacklist, macros, envvars,
                 message_queue, action_queue, message_queue_lock,
                 keep_running, loopvars, rt, nextId, refused, hist>>

\* Team.restore_snapshot(team_snapshot): members are overwritten, the
\* lists are imported (UserList.import_dict only adds), macros are set
restore_snapshot_from(t, snap) ==
  /\ members' = [members EXCEPT ![t] = snap.members]
  /\ user_whitelist' = [user_whitelist EXCEPT ![t] = @ \cup snap.whitelist]
  /\ user_blacklist' = [user_blacklist EXCEPT ![t] = @ \cup snap.blacklist]
  /\ macros' = [macros EXCEPT ![t] = snap.macros]
  /\ UNCHANGED <<action_queue_lock, ret, libvars>>
  /\ UNCHANGED <<registry, envvars, message_queue, action_queue,
                 message_queue_lock, keep_running, loopvars, rt, nextId,
                 refused, hist>>

restore_snapshot(t) == \E snap \in Snapshots : restore_snapshot_from(t, snap)

\* Team.create_snapshot
create_snapshot(t) ==
  [members |-> members[t], whitelist |-> user_whitelist[t],
   blacklist |-> user_blacklist[t], macros |-> macros[t]]

InitMembers ==
  /\ InitCommon
  /\ tpc = [t \in Teams |-> "new"]
  /\ epc = [t \in Teams |-> "new"]
  /\ spam_protection = [t \in Teams |-> TRUE]
  /\ team_class = [t \in Teams |-> <<"Default">>]
  /\ accept_input = TRUE
  /\ random_action = FALSE

NextMembers ==
  \/ \E t \in Teams : add_message(t)
  \/ \E t \in Teams : call_blocked_from_team(t)
  \/ \E t \in Teams : join_team(t)
  \/ \E t \in Teams : leave_team(t)
  \/ \E t \in Teams : restore_snapshot(t)

SpecMembers == InitMembers /\ [][NextMembers]_vars

(***************************************************************************)
(* The pipeline under fair scheduling: every thread that can take a step   *)
(* eventually takes one; a call of InputServer.execute returns or raises.  *)
(***************************************************************************)
InitLive ==
  /\ InitCommon
  /\ tpc = [t \in Teams |-> "loop"]
  /\ epc = [t \in Teams |-> "loop"]
  /\ spam_protection = [t \in Teams |-> TRUE]
  /\ team_class = [t \in Teams |->
                     IF t = "A" THEN <<"Default">> ELSE <<"None">>]
  /\ accept_input = TRUE
  /\ random_action = FALSE

NextLive ==
  \/ R_receive("r1", MaxMsgsLive)
  \/ R_check("r1")
  \/ R_enqueue("r1")
  \/ R_member("r1")
  \/ \E t \in Teams : T_loop(t)
  \/ \E t \in Teams : T_pop(t)
  \/ \E t \in Teams : T_translate(t)
  \/ \E t \in Teams : T_append(t)
  \/ \E t \in Teams : T_clear(t)
  \/ \E t \in Teams : E_loop(t)
  \/ \E t \in Teams : E_pop(t)
  \/ \E t \in Teams : E_execute(t)
  \/ \E t \in Teams : E_refused(t)

Fairness ==
  /\ WF_vars(R_check("r1") \/ R_enqueue("r1") \/ R_member("r1"))
  /\ \A t \in Teams :
       WF_vars(T_loop(t) \/ T_pop(t) \/ T_translate(t) \/ T_clear(t))
  \* a thread waiting for action_queue_lock gets it: the execute thread
  \* releases the lock before every call of InputServer.execute
  /\ \A t \in Teams : SF_vars(T_append(t))
  /\ \A t \in Teams :
       WF_vars(E_loop(t) \/ E_pop(t) \/ E_execute(t) \/ E_refused(t))

LiveSpec == InitLive /\ [][NextLive]_vars /\ Fairness

(***************************************************************************)
(* Only the chat thread runs: it routes messages and handles operator      *)
(* commands (chat/chatbot.py on_pubmsg); the loops are not started.        *)
(***************************************************************************)
\* cmd_addBlacklist: team.user_blacklist.add_to_list(user)
cmd_addBlacklist(t, u) ==
  /\ \A r \in Routers : rt[r].pc = "idle"
  /\ u \notin user_blacklist[t]
  /\ user_blacklist' = [user_blacklist EXCEPT ![t] = @ \cup {u}]
  /\ UNCHANGED <<action_queue_lock, ret, libvars>>
  /\ UNCHANGED <<members, registry, user_whitelist, macros, envvars,
                 message_queue, action_queue, message_queue_lock,
                 keep_running, loopvars, rt, nextId, refused, hist>>

InitScan ==
  /\ InitCommon
  /\ tpc = [t \in Teams |-> "new"]
  /\ epc = [t \in Teams |-> "new"]
  /\ spam_protection = [t \in Teams |-> TRUE]
  /\ team_class = [t \in Teams |-> <<"Default">>]
  /\ accept_input = TRUE
  /\ random_action = FALSE

NextScan ==
  \/ R_receive("r1", MaxMsgsScan)
  \/ R_check("r1")
  \/ R_enqueue("r1")
  \/ R_member("r1")
  \/ \E t \in Teams, u \in Users : cmd_addBlacklist(t, u)

SpecScan == InitScan /\ [][NextScan]_vars

(***************************************************************************)
(* The membership gates of every team variant, called from one thread (as  *)
(* the chat commands do) on teams whose lists and members were changed by  *)
(* commands.                                                               *)
(***************************************************************************)
\* number of whitelist and blacklist entries the commands add
MaxListed == 1

\* the classes of team A: single variants and combined classes; team B is
\* a Balancing team next to a Balancing team and a Default team otherwise
ClassChoices ==
  { <<"Default">>, <<"None">>, <<"NameRegex">>, <<"Whitelist">>,
    <<"Balancing">>, <<"NameRegex", "Default">>, <<"Default", "None">>,
    <<"None", "Default">>, <<"Whitelist", "NameRegex">>,
    <<"NameRegex", "Whitelist">>, <<"Balancing", "NameRegex">> }

Listed ==
  LET n(list) == Cardinality(list["A"]) + Cardinality(list["B"])
  IN  n(user_whitelist) + n(user_blacklist)

\* cmd_addWhitelist: team.user_whitelist.add_to_list(user)
cmd_addWhitelist(t, u) ==
  /\ \A r \in Routers : rt[r].pc = "idle"
  /\ u \notin user_whitelist[t]
  /\ user_whitelist' = [user_whitelist EXCEPT ![t] = @ \cup {u}]
  /\ UNCHANGED <<action_queue_lock, ret, libvars>>
  /\ UNCHANGED <<members, registry, user_blacklist, macros, envvars,
                 message_queue, action_queue, message_queue_lock,
                 keep_running, loopvars, rt, nextId, refused, hist>>

InitGates ==
  /\ InitCommon
  /\ tpc = [t \in Teams |-> "new"]
  /\ epc = [t \in Teams |-> "new"]
  /\ spam_protection = [t \in Teams |-> TRUE]
  /\ \E c \in ClassChoices :
       team_class =
         [t \in Teams |->
            IF t = "A" THEN c
            ELSE IF c[1] = "Balancing" THEN <<"Balancing">>
            ELSE <<"Default">>]
  /\ accept_input = TRUE
  /\ random_action = FALSE

NextGates ==
  \/ \E t \in Teams : join_team(t)
  \/ \E t \in Teams, u \in Users :
       Listed < MaxListed /\ cmd_addWhitelist(t, u)
  \/ \E t \in Teams, u \in Users :
       Listed < MaxListed /\ cmd_addBlacklist(t, u)
  \/ \E t \in Teams : call_blocked_from_team(t)
  \/ \E t \in Teams : call_belongs_to_team(t)

SpecGates == InitGates /\ [][NextGates]_vars

(***************************************************************************)
(* The router as one call: add_message_to_assigned_team(msg) from entry to *)
(* return, on the chat thread while no team loop runs.                     *)
(***************************************************************************)
\* a guard that forgets the accept-input toggle
is_routed_always(msg) == message_is_action(msg)

\* add_message_to_assigned_team: the guard
is_routed(msg) == accept_input /\ message_is_action(msg)

\* the teams the call tries: the team of the registry, then every team
candidates(reg, u) ==
  IF reg[u] # NoTeam THEN <<reg[u]>> \o TeamOrder ELSE TeamOrder

\* the calls of __add_message_to_team up to the first that returns True:
\* the accepting team (NoTeam: none) and what the blocked_from_team calls
\* left of members and registry
RECURSIVE route(_, _, _, _)
route(msg, cands, mem, reg) ==
  IF cands = <<>>
    THEN [team |-> NoTeam, members |-> mem, registry |-> reg]
    ELSE LET t == Head(cands)
             mem2 == IF reaches_blocked(t, msg)
                       THEN blocked_members(t, msg, mem, reg, user_blacklist)
                       ELSE mem
             reg2 == IF reaches_blocked(t, msg)
                       THEN blocked_registry(t, msg, mem, reg,
                                             user_blacklist)
                       ELSE reg
         IN  IF accepts(t, msg, mem, reg, user_whitelist, user_blacklist)
               THEN [team |-> t, members |-> mem2, registry |-> reg2]
               ELSE route(msg, Tail(cands), mem2, reg2)

\* add_message_to_assigned_team(msg), the whole call
add_message_to_assigned_team(limit) ==
  /\ nextId <= limit
  /\ \A r \in Routers : rt[r].pc = "idle"
  /\ \E u \in Users, txt \in Texts, ch \in Channels :
       LET msg == [id |-> nextId, user |-> u, message |-> txt, channel |-> ch]
           res == route(msg, candidates(registry, u), members, registry)
           t == res.team
       IN  IF ~is_routed(msg)
             THEN /\ ret' = [NoRet EXCEPT !.op = "route", !.msg = msg]
                  /\ UNCHANGED <<members, registry, message_queue, hist>>
             ELSE /\ ret' = [NoRet EXCEPT !.op = "route", !.msg = msg,
                                          !.team = t, !.value = (t # NoTeam)]
                  /\ IF t = NoTeam
                       THEN /\ members' = res.members
                            /\ registry' = res.registry
                            /\ UNCHANGED <<message_queue, hist>>
                       ELSE IF is_spam(t, msg)
                         THEN /\ members' = res.members
                              /\ registry' = res.registry
                              /\ hist' = [hist EXCEPT ![msg.id].spam = TRUE]
                              /\ UNCHANGED message_queue
                         ELSE /\ message_queue' =
                                   [message_queue EXCEPT
                                      ![t] = deque_append(@, msg)]
                              /\ hist' = [hist EXCEPT
                                            ![msg.id] = Queued(@, t, msg)]
                              /\ members' = add_members(t, msg, res.members)
                              /\ registry' = add_registry(t, msg, res.members,
                                                          res.registry)
  /\ nextId' = nextId + 1
  /\ UNCHANGED <<action_queue_lock, libvars>>
  /\ UNCHANGED <<user_whitelist, user_blacklist, macros, envvars,
                 action_queue, message_queue_lock, keep_running, loopvars,
                 rt, refused>>

\* EventHandler.toggle_state_accept_input
toggle_state_accept_input ==
  /\ accept_input' = ~accept_input
  /\ UNCHANGED <<action_queue_lock, ret, libvars>>
  /\ UNCHANGED <<teamvars, spam_protection, team_class, random_action,
                 message_queue, action_queue, message_queue_lock,
                 keep_running, loopvars, rt, nextId, refused, hist>>

InitRoute ==
  /\ InitCommon
  /\ tpc = [t \in Teams |-> "new"]
  /\ epc = [t \in Teams |-> "new"]
  /\ spam_protection = [t \in Teams |-> TRUE]
  /\ team_class \in
       { [t \in Teams |-> <<"Default">>],
         [t \in Teams |-> IF t = "A" THEN <<"Default">> ELSE <<"None">>],
         [t \in Teams |-> IF t = "A" THEN <<"Whitelist">>
                                     ELSE <<"Default">>] }
  /\ accept_input = TRUE
  /\ random_action = FALSE

NextRoute ==
  \/ add_message_to_assigned_team(MaxMsgsRoute)
  \/ toggle_state_accept_input
  \/ \E t \in Teams, u \in Users :
       Listed < MaxListed /\ cmd_addWhitelist(t, u)
  \/ \E t \in Teams, u \in Users :
       Listed < MaxListed /\ cmd_addBlacklist(t, u)

SpecRoute == InitRoute /\ [][NextRoute]_vars

(***************************************************************************)
(* Two Default teams with running loops; the InputServer call of team A    *)
(* may take for ever (no fairness for its return).                         *)
(***************************************************************************)
NextIndep ==
  \/ R_receive("r1", MaxMsgsIndep)
  \/ R_check("r1")
  \/ R_enqueue("r1")
  \/ R_member("r1")
  \/ \E t \in Teams : T_loop(t)
  \/ \E t \in Teams : T_pop(t)
  \/ \E t \in Teams : T_translate(t)
  \/ \E t \in Teams : T_append(t)
  \/ \E t \in Teams : T_clear(t)
  \/ \E t \in Teams : E_loop(t)
  \/ \E t \in Teams : E_pop(t)
  \/ \E t \in Teams : E_execute(t)

FairnessIndep ==
  /\ WF_vars(R_check("r1") \/ R_enqueue("r1") \/ R_member("r1"))
  /\ \A t \in Teams :
       WF_vars(T_loop(t) \/ T_pop(t) \/ T_translate(t) \/ T_clear(t))
  /\ \A t \in Teams : SF_vars(T_append(t))
  /\ \A t \in Teams : WF_vars(E_loop(t) \/ E_pop(t))
  \* the InputServer answers team B; nothing is assumed for team A
  /\ WF_vars(E_execute("B"))

SpecIndep == InitTwo /\ [][NextIndep]_vars /\ FairnessIndep

(***************************************************************************)
(* A Default team and a None team with running loops; either may be        *)
(* stopped at any time (Team.stop_thread), the InputServer answers.        *)
(***************************************************************************)
NextStop ==
  \/ R_receive("r1", MaxMsgsStop)
  \/ R_check("r1")
  \/ R_enqueue("r1")
  \/ R_member("r1")
  \/ \E t \in Teams : T_loop(t)
  \/ \E t \in Teams : T_pop(t)
  \/ \E t \in Teams : T_translate(t)
  \/ \E t \in Teams : T_append(t)
  \/ \E t \in Teams : T_clear(t)
  \/ \E t \in Teams : E_loop(t)
  \/ \E t \in Teams : E_pop(t)
  \/ \E t \in Teams : E_execute(t)
  \/ \E t \in Teams : stop_thread(t)

FairnessStop ==
  /\ WF_vars(R_check("r1") \/ R_enqueue("r1") \/ R_member("r1"))
  /\ \A t \in Teams :
       WF_vars(T_loop(t) \/ T_pop(t) \/ T_translate(t) \/ T_clear(t))
  /\ \A t \in Teams : SF_vars(T_append(t))
  /\ \A t \in Teams : WF_vars(E_loop(t) \/ E_pop(t) \/ E_execute(t))

SpecStop == InitLive /\ [][NextStop]_vars /\ FairnessStop

(***************************************************************************)
(* UserList (userdata/userlist.py): one list, called from one thread.      *)
(***************************************************************************)
\* what add_to_list and remove_from_list are called with: a user name, or
\* a group token "$group" / "$group[chan]" (chan "" when there is none)
ListEntries ==
  [kind : {"user"}, name : {"u1", "U1", "u2"}, group : {""}, chan : {""}]
    \cup [kind : {"group"}, name : {""}, group : GroupNames,
          chan : {"", "#a", "a", "#b"}]

\* the team_channel_set a caller passes
ChannelSets == {channels[t] : t \in Teams} \cup {{}}

\* the messages a list is asked about: the mod tag is set or not
Probes == [user : Users, channel : Channels, mod : BOOLEAN]

\* str.lower() on the names of the model
lower(name) == IF name = "U1" THEN "u1" ELSE name

\* chan if chan.startswith('#') else f'#{chan}'
with_hash(chan) == IF chan = "a" THEN "#a" ELSE chan

\* the channels a group token names
entry_channels(entry, team_channel_set) ==
  IF entry.chan # "" THEN {with_hash(entry.chan)} ELSE team_channel_set

\* UserList.add_to_list
add_to_list(l, entry, team_channel_set) ==
  IF entry.kind = "group"
    THEN [l EXCEPT
            !.special_groups[entry.group] =
               @ \cup entry_channels(entry, team_channel_set),
            !.known_users = {}]
    ELSE [l EXCEPT !.fixed_users = @ \cup {lower(entry.name)},
                   !.included_users = @ \cup {lower(entry.name)},
                   !.known_users = @ \cup {lower(entry.name)}]

\* a group removal that keeps the cached verdicts
remove_from_list_keep_cache(l, entry, team_channel_set) ==
  IF entry.kind = "group"
    THEN [l EXCEPT
            !.special_groups[entry.group] =
               @ \ entry_channels(entry, team_channel_set)]
    ELSE [l EXCEPT !.fixed_users = @ \ {lower(entry.name)},
                   !.included_users = @ \ {lower(entry.name)},
                   !.known_users = @ \ {lower(entry.name)}]

\* UserList.remove_from_list
remove_from_list(l, entry, team_channel_set) ==
  IF entry.kind = "group"
    THEN [l EXCEPT
            !.special_groups[entry.group] =
               @ \ entry_channels(entry, team_channel_set),
            !.known_users = {},
            !.included_users = {}]
    ELSE [l EXCEPT !.fixed_users = @ \ {lower(entry.name)},
                   !.included_users = @ \ {lower(entry.name)},
                   !.known_users = @ \ {lower(entry.name)}]

\* UserList.is_mod
is_mod(l, msg) ==
  /\ l.special_groups["$mods"] # {}
  /\ msg.channel \in l.special_groups["$mods"]
  /\ msg.mod

\* UserList.is_user
is_user(l, msg) ==
  /\ l.special_groups["$users"] # {}
  /\ msg.channel \in l.special_groups["$users"]

\* UserList.is_in_any_subgroup
is_in_any_subgroup(l, msg) == is_mod(l, msg) \/ is_user(l, msg)

\* UserList.message_in_list: the value it returns ...
UserList_message_in_list(l, msg) ==
  IF l.cache_users /\ msg.user \in l.known_users
    THEN msg.user \in l.included_users
    ELSE msg.user \in l.fixed_users \/ is_in_any_subgroup(l, msg)

\* ... and the list after the call
UserList_message_in_list_cached(l, msg) ==
  IF l.cache_users /\ msg.user \in l.known_users
    THEN l
    ELSE IF msg.user \in l.fixed_users \/ is_in_any_subgroup(l, msg)
           THEN [l EXCEPT !.included_users = @ \cup {msg.user},
                          !.known_users = @ \cup {msg.user}]
           ELSE [l EXCEPT !.known_users = @ \cup {msg.user}]

\* UserList.user_in_list: "True", "False" or "None" ...
user_in_list(l, user) ==
  IF l.cache_users /\ user \in l.known_users
    THEN IF user \in l.included_users THEN "True" ELSE "False"
    ELSE IF user \in l.fixed_users THEN "True" ELSE "None"

\* ... and the list after the call
user_in_list_cached(l, user) ==
  IF l.cache_users /\ user \in l.known_users
    THEN l
    ELSE IF user \in l.fixed_users
           THEN [l EXCEPT !.included_users = @ \cup {user},
                          !.known_users = @ \cup {user}]
           ELSE l

\* UserList.export_dict (the lists of the dict as sets)
export_dict(l) == [users |-> l.fixed_users, groups |-> l.special_groups]

\* an import that keeps the cached verdicts
import_dict_keep_cache(l, ul_dict) ==
  [l EXCEPT !.fixed_users = @ \cup ul_dict.users,
            !.special_groups =
               [g \in GroupNames |-> @[g] \cup ul_dict.groups[g]]]

\* UserList.import_dict
import_dict(l, ul_dict) ==
  [l EXCEPT !.fixed_users = @ \cup ul_dict.users,
            !.special_groups =
               [g \in GroupNames |-> @[g] \cup ul_dict.groups[g]],
            !.known_users = {}]

\* everything but the list and the record of the call
nolibvars ==
  <<teamvars, envvars, message_queue, action_queue, message_queue_lock,
    action_queue_lock, keep_running, loopvars, rt, nextId, refused, hist,
    ul_nocache>>

call_add_to_list ==
  /\ \E entry \in ListEntries, cs \in ChannelSets :
       /\ ul' = add_to_list(ul, entry, cs)
       /\ ret' = [NoRet EXCEPT !.op = "add_to_list", !.entry = entry]
  /\ UNCHANGED <<nolibvars, actionset>>

call_remove_from_list ==
  /\ \E entry \in ListEntries, cs \in ChannelSets :
       /\ ul' = remove_from_list(ul, entry, cs)
       /\ ret' = [NoRet EXCEPT !.op = "remove_from_list", !.entry = entry,
                                !.args = <<cs>>]
  /\ UNCHANGED <<nolibvars, actionset>>

call_message_in_list ==
  /\ \E msg \in Probes :
       /\ ul' = UserList_message_in_list_cached(ul, msg)
       /\ ret' = [NoRet EXCEPT !.op = "message_in_list", !.msg = msg,
                                !.value = UserList_message_in_list(ul, msg)]
  /\ UNCHANGED <<nolibvars, actionset>>

call_user_in_list ==
  /\ \E u \in Users :
       /\ ul' = user_in_list_cached(ul, u)
       /\ ret' = [NoRet EXCEPT !.op = "user_in_list",
                                !.entry.name = u,
                                !.tri = user_in_list(ul, u)]
  /\ UNCHANGED <<nolibvars, actionset>>

InitUserList ==
  /\ InitState
  /\ ret = NoRet
  /\ tpc = [t \in Teams |-> "new"]
  /\ epc = [t \in Teams |-> "new"]
  /\ spam_protection = [t \in Teams |-> TRUE]
  /\ team_class = [t \in Teams |-> <<"Default">>]
  /\ accept_input = TRUE
  /\ random_action = FALSE
  /\ ul \in {UserList(cache) : cache \in BOOLEAN}
  /\ actionset = MultiKey_BaseActionset(FALSE, FALSE)

NextUserList ==
  \/ call_add_to_list
  \/ call_remove_from_list
  \/ call_message_in_list
  \/ call_user_in_list

SpecUserList == InitUserList /\ [][NextUserList]_vars

(***************************************************************************)
(* Two UserLists, one built with cache_users=True and one with             *)
(* cache_users=False, that are given the same calls.  Every user writes    *)
(* in one channel with one set of tags.                                    *)
(***************************************************************************)
\* the one message shape of each user: u1 is a mod in #a, u2 writes in #b
SteadyProbes ==
  {[user |-> "u1", channel |-> "#a", mod |-> TRUE],
   [user |-> "u2", channel |-> "#b", mod |-> FALSE]}

\* the snapshot dicts a list imports
ListDicts ==
  [users : {{}, {"u1"}, {"u2"}},
   groups : {[g \in GroupNames |-> {}],
             [g \in GroupNames |-> IF g = "$mods" THEN {"#a"} ELSE {}],
             [g \in GroupNames |-> IF g = "$users" THEN {"#b"} ELSE {}]}]

both_add_to_list ==
  /\ \E entry \in ListEntries, cs \in ChannelSets :
       /\ ul' = add_to_list(ul, entry, cs)
       /\ ul_nocache' = add_to_list(ul_nocache, entry, cs)
       /\ ret' = [NoRet EXCEPT !.op = "add_to_list", !.entry = entry]
  /\ UNCHANGED <<teamvars, envvars, message_queue, action_queue,
                 message_queue_lock, action_queue_lock, keep_running,
                 loopvars, rt, nextId, refused, hist, actionset>>

both_remove_from_list ==
  /\ \E entry \in ListEntries, cs \in ChannelSets :
       /\ ul' = remove_from_list(ul, entry, cs)
       /\ ul_nocache' = remove_from_list(ul_nocache, entry, cs)
       /\ ret' = [NoRet EXCEPT !.op = "remove_from_list", !.entry = entry]
  /\ UNCHANGED <<teamvars, envvars, message_queue, action_queue,
                 message_queue_lock, action_queue_lock, keep_running,
                 loopvars, rt, nextId, refused, hist, actionset>>

both_import_dict ==
  /\ \E ul_dict \in ListDicts :
       /\ ul' = import_dict(ul, ul_dict)
       /\ ul_nocache' = import_dict(ul_nocache, ul_dict)
       /\ ret' = [NoRet EXCEPT !.op = "import_dict"]
  /\ UNCHANGED <<teamvars, envvars, message_queue, action_queue,
                 message_queue_lock, action_queue_lock, keep_running,
                 loopvars, rt, nextId, refused, hist, actionset>>

\* ret.value is the verdict of the caching list, ret.tri the one of the
\* list without cache
both_message_in_list ==
  /\ \E msg \in SteadyProbes :
       /\ ul' = UserList_message_in_list_cached(ul, msg)
       /\ ul_nocache' = UserList_message_in_list_cached(ul_nocache, msg)
       /\ ret' = [NoRet EXCEPT
                     !.op = "message_in_list", !.msg = msg,
                     !.value = UserList_message_in_list(ul, msg),
                     !.tri = IF UserList_message_in_list(ul_nocache, msg)
                               THEN "True" ELSE "False"]
  /\ UNCHANGED <<teamvars, envvars, message_queue, action_queue,
                 message_queue_lock, action_queue_lock, keep_running,
                 loopvars, rt, nextId, refused, hist, actionset>>

both_user_in_list ==
  /\ \E u \in Users :
       /\ ul' = user_in_list_cached(ul, u)
       /\ ul_nocache' = user_in_list_cached(ul_nocache, u)
       /\ ret' = [NoRet EXCEPT !.op = "user_in_list", !.entry.name = u,
                                !.tri = user_in_list(ul, u)]
  /\ UNCHANGED <<teamvars, envvars, message_queue, action_queue,
                 message_queue_lock, action_queue_lock, keep_running,
                 loopvars, rt, nextId, refused, hist, actionset>>

InitBoth ==
  /\ InitState
  /\ ret = NoRet
  /\ tpc = [t \in Teams |-> "new"]
  /\ epc = [t \in Teams |-> "new"]
  /\ spam_protection = [t \in Teams |-> TRUE]
  /\ team_class = [t \in Teams |-> <<"Default">>]
  /\ accept_input = TRUE
  /\ random_action = FALSE
  /\ ul = UserList(TRUE)
  /\ actionset = MultiKey_BaseActionset(FALSE, FALSE)

NextBoth ==
  \/ both_add_to_list
  \/ both_remove_from_list
  \/ both_import_dict
  \/ both_message_in_list
  \/ both_user_in_list

SpecBoth == InitBoth /\ [][NextBoth]_vars

(***************************************************************************)
(* MultiKey_BaseActionset (actionsets/subclasses/base_multikey.py): the    *)
(* translation of a message into arguments of press_multiple_Keys.         *)
(***************************************************************************)
PRESS_KEY == 1
HOLD_KEY == -1

create_verb_params(key, duration, delay, min_time, max_time, input_type) ==
  [key |-> key, delay |-> delay, duration |-> duration,
   min_time |-> min_time, max_time |-> max_time, input_type |-> input_type]

\* a validated verb_dict: a one-key verb with and without the action
\* prefix, a three-key verb whose keys differ in default duration, default
\* delay and max_time, a verb that holds a key
verb_dict ==
  [v \in {"+tap", "tap", "+combo", "+hold"} |->
     CASE v \in {"+tap", "tap"} ->
            <<create_verb_params("a", 100, 0, 50, 500, PRESS_KEY)>>
       [] v = "+combo" ->
            <<create_verb_params("a", 100, 0, 50, 500, PRESS_KEY),
              create_verb_params("b", 150, 100, 50, 500, PRESS_KEY),
              create_verb_params("c", 80, 0, 50, 200, PRESS_KEY)>>
       [] v = "+hold" ->
            <<create_verb_params("a", 100, 0, 50, 500, HOLD_KEY)>>]

\* MultiKey_BaseActionset.validate
validate ==
  \A v \in DOMAIN verb_dict : \A i \in 1..Len(verb_dict[v]) :
    /\ verb_dict[v][i].min_time <= verb_dict[v][i].max_time
    /\ verb_dict[v][i].delay + verb_dict[v][i].duration
         <= verb_dict[v][i].max_time

\* what VERB_DELAY_DURATION_REGEX.findall yields for a message: the verbs
\* with their delay and duration, 0 where the user gave none
ParsedVerbs ==
  [verb : {"+tap", "tap", "+combo", "+hold", "+xyz"},
   delay : {0, 100, 480},
   duration : {0, 30, 200, 9999}]

RECURSIVE SeqsUpTo(_, _)
SeqsUpTo(S, n) ==
  IF n = 0 THEN {<<>>}
  ELSE LET shorter == SeqsUpTo(S, n - 1)
       IN  shorter \cup {Append(q, x) : q \in shorter, x \in S}

ParsedMessages == SeqsUpTo(ParsedVerbs, MaxVerbs) \ {<<>>}

\* Actionset.message_is_command on the parsed message: the text starts
\* with the action prefix "+"
starts_with_action_prefix(message) ==
  message[1].verb \in {"+tap", "+combo", "+hold", "+xyz"}

\* helpers_native.clamp
clamp(minimum, value, maximum) ==
  LET lo == IF minimum > maximum THEN maximum ELSE minimum
      hi == IF minimum > maximum THEN minimum ELSE maximum
      capped == IF value < hi THEN value ELSE hi
  IN  IF lo > capped THEN lo ELSE capped

\* verb_dict.get(verb, macro_dict.get(verb, None)); <<>> stands for None
lookup_result(verb) ==
  IF verb \in DOMAIN verb_dict THEN verb_dict[verb]
  ELSE IF verb \in MacroKeys THEN actionset.macro_dict[verb]
  ELSE <<>>

\* a sub-action that takes the user's duration without the offset
function_args_flat(verb_param, inherent_duration, param_delay, param_duration) ==
  LET delay == clamp(0, param_delay + verb_param.delay, verb_param.max_time)
  IN  [key |-> verb_param.key,
       delay |-> delay,
       duration |->
         IF verb_param.input_type = PRESS_KEY
           THEN clamp(verb_param.min_time,
                      IF param_duration # 0 THEN param_duration
                                            ELSE verb_param.duration,
                      verb_param.max_time - delay)
           ELSE verb_param.input_type]

\* the body of the loop over verb_param_list
function_args(verb_param, inherent_duration, param_delay, param_duration) ==
  LET delay == clamp(0, param_delay + verb_param.delay, verb_param.max_time)
  IN  [key |-> verb_param.key,
       delay |-> delay,
       duration |->
         IF verb_param.input_type = PRESS_KEY
           THEN IF param_duration # 0
                  THEN clamp(verb_param.min_time,
                             param_duration +
                               (verb_param.duration - inherent_duration),
                             verb_param.max_time - delay)
                  ELSE clamp(verb_param.min_time, verb_param.duration,
                             verb_param.max_time - delay)
           ELSE verb_param.input_type]

\* the sub-actions of one parsed verb
verb_args_list(verb_param_list, param_delay, param_duration) ==
  [i \in 1..Len(verb_param_list) |->
     function_args(verb_param_list[i], verb_param_list[1].duration,
                   param_delay, param_duration)]

\* a translation that gives up at the first unknown verb
RECURSIVE translate_until_unknown(_)
translate_until_unknown(message) ==
  IF message = <<>> THEN <<>>
  ELSE LET r == Head(message)
       IN  IF lookup_result(r.verb) = <<>>
             THEN <<>>
             ELSE verb_args_list(lookup_result(r.verb), r.delay, r.duration)
                    \o translate_until_unknown(Tail(message))

\* MultiKey_BaseActionset.translate_message_contents_to_args_list
RECURSIVE translate_message_contents_to_args_list(_)
translate_message_contents_to_args_list(message) ==
  IF message = <<>> THEN <<>>
  ELSE LET r == Head(message)
       IN  (IF lookup_result(r.verb) = <<>>
              THEN <<>>
              ELSE verb_args_list(lookup_result(r.verb), r.delay, r.duration))
             \o translate_message_contents_to_args_list(Tail(message))

\* MultiKey_BaseActionset.build_partial on a parsed message
MultiKey_build_partial(message) ==
  LET args_list == translate_message_contents_to_args_list(message)
  IN  IF Len(args_list) = 0
        THEN None
        ELSE [kind |-> "press_multiple_Keys", key |-> "",
              args_list |-> args_list]

\* MultiKey_BaseActionset.translate_user_message_to_action
MultiKey_translate_user_message_to_action(message) ==
  IF starts_with_action_prefix(message)
    THEN MultiKey_build_partial(message)
    ELSE None

\* the call on the message drawn at the start
call_translate_user_message_to_action ==
  /\ ret' = [ret EXCEPT
               !.op = "translate_user_message_to_action",
               !.out = translate_message_contents_to_args_list(ret.args),
               !.func = MultiKey_translate_user_message_to_action(ret.args)]
  /\ UNCHANGED <<nolibvars, libvars>>

InitTranslate ==
  /\ InitState
  /\ InitLibs
  /\ validate
  /\ \E message \in ParsedMessages : ret = [NoRet EXCEPT !.args = message]
  /\ tpc = [t \in Teams |-> "new"]
  /\ epc = [t \in Teams |-> "new"]
  /\ spam_protection = [t \in Teams |-> TRUE]
  /\ team_class = [t \in Teams |-> <<"Default">>]
  /\ accept_input = TRUE
  /\ random_action = FALSE

SpecTranslate ==
  InitTranslate /\ [][call_translate_user_message_to_action]_vars

(***************************************************************************)
(* MultiKey_BaseActionset: macros.  A command is the result of            *)
(* message.split(maxsplit=2): the number of parts, the macro name as      *)
(* typed, and the macro contents as the verbs the regex finds in them.    *)
(***************************************************************************)
MacroContents ==
  {<<[verb |-> "+tap", delay |-> 0, duration |-> 0]>>,
   <<[verb |-> "m1", delay |-> 0, duration |-> 30]>>,
   <<[verb |-> "+xyz", delay |-> 0, duration |-> 0]>>}

MacroCommands ==
  [parts : 1..3, name : {"m1", "M1", "+m1", "++m1"},
   contents : MacroContents]

\* f"{self.action_prefix}{macro_name}"
prefixed_name(name) ==
  CASE name = "m1" -> "+m1"
    [] name = "+m1" -> "++m1"

\* macro_name.startswith(self.action_prefix)
name_startswith_action_prefix(name) == name \in {"+m1", "++m1"}

\* macro_name[len(self.action_prefix):]
without_action_prefix(name) ==
  CASE name = "+m1" -> "m1"
    [] name = "++m1" -> "+m1"

\* the macro name the three operations work with: lower case, one action
\* prefix removed
macro_name(msg) ==
  LET lowered == IF msg.name = "M1" THEN "m1" ELSE msg.name
  IN  IF name_startswith_action_prefix(lowered)
        THEN without_action_prefix(lowered)
        ELSE lowered

\* MultiKey_BaseActionset.get_macro_dict
get_macro_dict(a) ==
  [k \in MacroKeys |->
     IF name_startswith_action_prefix(k) THEN <<>> ELSE a.macro_dict[k]]

\* MultiKey_BaseActionset.set_macro_dict
set_macro_dict(a, new_macros) ==
  [a EXCEPT !.macro_dict =
     [k \in MacroKeys |->
        IF new_macros[k] # <<>> THEN new_macros[k]
        ELSE IF name_startswith_action_prefix(k)
               THEN new_macros[without_action_prefix(k)]
               ELSE <<>>]]

\* MultiKey_BaseActionset.load_macros_from_file
load_macros_from_file(a) ==
  IF ~a.macro_file \/ a.file_macros = [k \in MacroKeys |-> <<>>]
    THEN a
    ELSE set_macro_dict(a, a.file_macros)

\* MultiKey_BaseActionset.save_macros_to_file
save_macros_to_file(a) ==
  IF ~(a.persistent_macros /\ a.macro_file)
    THEN a
    ELSE [a EXCEPT !.file_macros = get_macro_dict(a)]

\* the loop over verb_param_list in compile_action_string_into_macro; delay
\* and duration are carried from one entry to the next
RECURSIVE compile_verb(_, _, _)
compile_verb(verb_param_list, delay, duration) ==
  IF verb_param_list = <<>> THEN <<>>
  ELSE LET verb_param == Head(verb_param_list)
           new_delay == clamp(0, delay, verb_param.max_time)
           new_duration ==
             IF duration # 0
               THEN clamp(verb_param.min_time, duration,
                          verb_param.max_time - new_delay)
               ELSE duration
       IN  <<[verb_param EXCEPT
                !.delay = new_delay,
                !.duration = IF duration # 0 THEN new_duration ELSE @]>>
             \o compile_verb(Tail(verb_param_list), new_delay, new_duration)

RECURSIVE compile_verbs(_)
compile_verbs(contents) ==
  IF contents = <<>> THEN <<>>
  ELSE compile_verb(lookup_result(Head(contents).verb),
                    Head(contents).delay, Head(contents).duration)
         \o compile_verbs(Tail(contents))

\* MultiKey_BaseActionset.compile_action_string_into_macro
compile_action_string_into_macro(contents) ==
  IF \E k \in 1..Len(contents) : lookup_result(contents[k].verb) = <<>>
    THEN [raised |-> "InvalidVerbException", macro |-> <<>>]
    ELSE [raised |-> "", macro |-> compile_verbs(contents)]

\* what an operation hands back: the actionset after it, the value it
\* returns and the exception that leaves it, "" if none
Returned(a, value) == [actionset |-> a, value |-> value, raised |-> ""]

\* the tail shared by add_macro and change_macro
store_macro(a, msg) ==
  LET compiled == compile_action_string_into_macro(msg.contents)
  IN  IF compiled.raised # "" \/ compiled.macro = <<>>
        THEN Returned(a, FALSE)
        ELSE Returned(
               save_macros_to_file(
                 [a EXCEPT
                    !.macro_dict[macro_name(msg)] = compiled.macro,
                    !.macro_dict[prefixed_name(macro_name(msg))] =
                      compiled.macro]),
               TRUE)

\* MultiKey_BaseActionset.add_macro
add_macro(a, msg) ==
  IF ~a.allow_changing_macros THEN Returned(a, FALSE)
  ELSE IF msg.parts < 3 THEN Returned(a, FALSE)
  ELSE IF a.macro_dict[macro_name(msg)] # <<>> THEN Returned(a, FALSE)
  ELSE store_macro(a, msg)

\* MultiKey_BaseActionset.change_macro
change_macro(a, msg) ==
  IF ~a.allow_changing_macros THEN Returned(a, FALSE)
  ELSE IF msg.parts < 3 THEN Returned(a, FALSE)
  ELSE IF a.macro_dict[macro_name(msg)] = <<>> THEN Returned(a, FALSE)
  ELSE store_macro(a, msg)

\* MultiKey_BaseActionset.remove_macro: the second del raises KeyError
\* if the prefixed key is missing, after the first del has happened
remove_macro(a, msg) ==
  IF ~a.allow_changing_macros THEN Returned(a, FALSE)
  ELSE IF msg.parts < 2 THEN Returned(a, FALSE)
  ELSE IF a.macro_dict[macro_name(msg)] = <<>> THEN Returned(a, FALSE)
  ELSE LET first == [a EXCEPT !.macro_dict[macro_name(msg)] = <<>>]
       IN  IF first.macro_dict[prefixed_name(macro_name(msg))] = <<>>
             THEN [actionset |-> first, value |-> FALSE,
                   raised |-> "KeyError"]
             ELSE Returned(
                    save_macros_to_file(
                      [first EXCEPT
                         !.macro_dict[prefixed_name(macro_name(msg))] =
                           <<>>]),
                    TRUE)

\* the calls record the command in ret.args and the outcome in ret.value
\* and ret.tri
call_add_macro ==
  /\ \E msg \in MacroCommands :
       LET result == add_macro(actionset, msg)
       IN  /\ actionset' = result.actionset
           /\ ret' = [NoRet EXCEPT !.op = "add_macro", !.args = <<msg>>,
                                   !.value = result.value,
                                   !.tri = result.raised]
  /\ UNCHANGED <<nolibvars, ul>>

call_change_macro ==
  /\ \E msg \in MacroCommands :
       LET result == change_macro(actionset, msg)
       IN  /\ actionset' = result.actionset
           /\ ret' = [NoRet EXCEPT !.op = "change_macro", !.args = <<msg>>,
                                   !.value = result.value,
                                   !.tri = result.raised]
  /\ UNCHANGED <<nolibvars, ul>>

call_remove_macro ==
  /\ \E msg \in MacroCommands :
       LET result == remove_macro(actionset, msg)
       IN  /\ actionset' = result.actionset
           /\ ret' = [NoRet EXCEPT !.op = "remove_macro", !.args = <<msg>>,
                                   !.value = result.value,
                                   !.tri = result.raised]
  /\ UNCHANGED <<nolibvars, ul>>

\* cmd_reloadMacros -> MultiKey_BaseActionset.reload_macros
call_reload_macros ==
  /\ actionset' = load_macros_from_file(actionset)
  /\ ret' = [NoRet EXCEPT !.op = "reload_macros", !.value = TRUE]
  /\ UNCHANGED <<nolibvars, ul>>

\* actionsets as the configuration can build them: macros allowed or not,
\* with or without a macro file that is written back
InitMacros ==
  /\ InitState
  /\ ret = NoRet
  /\ ul = UserList(TRUE)
  /\ validate
  /\ \E allow \in BOOLEAN, persistent \in BOOLEAN :
       actionset = load_macros_from_file(
                     MultiKey_BaseActionset(allow, persistent))
  /\ tpc = [t \in Teams |-> "new"]
  /\ epc = [t \in Teams |-> "new"]
  /\ spam_protection = [t \in Teams |-> TRUE]
  /\ team_class = [t \in Teams |-> <<"Default">>]
  /\ accept_input = TRUE
  /\ random_action = FALSE

NextMacros ==
  \/ call_add_macro
  \/ call_change_macro
  \/ call_remove_macro
  \/ call_reload_macros

SpecMacros == InitMacros /\ [][NextMacros]_vars

(***************************************************************************)
(* Two Default teams with running loops while the random-actions hotkey    *)
(* is pressed now and then.                                                *)
(***************************************************************************)
\* EventHandler.toggle_state_random_action
toggle_state_random_action ==
  /\ random_action' = ~random_action
  /\ UNCHANGED <<action_queue_lock, ret, libvars>>
  /\ UNCHANGED <<teamvars, spam_protection, team_class, accept_input,
                 message_queue, action_queue, message_queue_lock,
                 keep_running, loopvars, rt, nextId, refused, hist>>

NextRandom ==
  \/ R_receive("r1", MaxMsgsRandom)
  \/ R_check("r1")
  \/ R_enqueue("r1")
  \/ R_member("r1")
  \/ \E t \in Teams : T_loop(t)
  \/ \E t \in Teams : T_pop(t)
  \/ \E t \in Teams : T_translate(t)
  \/ \E t \in Teams : T_append(t)
  \/ \E t \in Teams : T_clear(t)
  \/ \E t \in Teams : E_loop(t)
  \/ \E t \in Teams : E_pop(t)
  \/ \E t \in Teams : E_execute(t)
  \/ toggle_state_random_action

SpecRandom == InitTwo /\ [][NextRandom]_vars

(***************************************************************************)
(* The router next to the operator command that clears the teams.          *)
(***************************************************************************)
\* clear_team_members: team.members.clear() for every team with members
clear_team_members ==
  /\ members' = [t \in Teams |-> {}]
  /\ ret' = [NoRet EXCEPT !.op = "clear_team_members",
                          !.value = (\E t \in Teams : members[t] # {})]
  /\ UNCHANGED <<action_queue_lock, libvars>>
  /\ UNCHANGED <<registry, user_whitelist, user_blacklist, macros, envvars,
                 message_queue, action_queue, message_queue_lock,
                 keep_running, loopvars, rt, nextId, refused, hist>>

NextClear ==
  \/ add_message_to_assigned_team(MaxMsgsRoute)
  \/ clear_team_members

SpecClear == InitRoute /\ [][NextClear]_vars

(***************************************************************************)
(* Team.leave_team as a call whose return value is recorded.               *)
(***************************************************************************)
\* what leave_team returns: True unless the team is not leavable or
\* members.remove raises KeyError
leave_team_returns(t, u, mem) == leavable[t] /\ u \in mem[t]

\* self.members.remove(user)
leave_members(t, u, mem) ==
  IF leave_team_returns(t, u, mem) THEN [mem EXCEPT ![t] = @ \ {u}] ELSE mem

\* a leave that keeps the registry entry
leave_registry_keep(t, u, mem, reg) == reg

\* GlobalData.Users.discard(user)
leave_registry(t, u, mem, reg) ==
  IF leave_team_returns(t, u, mem) THEN [reg EXCEPT ![u] = NoTeam] ELSE reg

\* Team.leave_team(user), the whole call
call_leave_team(t) ==
  /\ \E u \in Users :
       /\ members' = leave_members(t, u, members)
       /\ registry' = leave_registry(t, u, members, registry)
       /\ ret' = [NoRet EXCEPT
                    !.op = "leave_team", !.team = t,
                    !.msg = [NoMsg EXCEPT !.user = u],
                    !.value = leave_team_returns(t, u, members)]
  /\ UNCHANGED <<action_queue_lock, libvars>>
  /\ UNCHANGED <<user_whitelist, user_blacklist, macros, envvars,
                 message_queue, action_queue, message_queue_lock,
                 keep_running, loopvars, rt, nextId, refused, hist>>

NextLeave ==
  \/ \E t \in Teams : join_team(t)
  \/ \E t \in Teams : call_leave_team(t)
  \/ \E t \in Teams : call_blocked_from_team(t)

SpecLeave == InitMembers /\ [][NextLeave]_vars

(***************************************************************************)
(* Two Balancing teams behind the router; no list command, no leave, no    *)
(* clear.                                                                  *)
(***************************************************************************)
InitBalance ==
  /\ InitCommon
  /\ tpc = [t \in Teams |-> "new"]
  /\ epc = [t \in Teams |-> "new"]
  /\ spam_protection \in {[t \in Teams |-> b] : b \in BOOLEAN}
  /\ team_class = [t \in Teams |-> <<"Balancing">>]
  /\ accept_input = TRUE
  /\ random_action = FALSE

SpecBalance ==
  InitBalance /\ [][add_message_to_assigned_team(MaxMsgsBalance)]_vars

(***************************************************************************)
(* The router in front of a team whose blacklist is a UserList with its    *)
(* groups and its cache: `ul` is the user_blacklist of team B.             *)
(***************************************************************************)
ListedTeam == "B"

\* chat messages with the tag a group reads
TaggedMessages(id) ==
  [id : {id}, user : Users, message : {TxtLeft}, channel : Channels,
   mod : BOOLEAN]

\* what the operator puts on the blacklist: a name, or a group with its
\* channel
BlacklistEntries ==
  {e \in ListEntries :
     \/ e.kind = "user" /\ e.name \in {"u1", "U1"}
     \/ e.kind = "group" /\ e.group = "$mods" /\ e.chan = "a"
     \/ e.kind = "group" /\ e.group = "$users" /\ e.chan = "#b"}

\* `msg in self.user_blacklist` of blocked_from_team
in_blacklist(t, msg, bl) ==
  IF t = ListedTeam THEN UserList_message_in_list(bl, msg)
  ELSE message_in_list(user_blacklist[t], msg)

\* one call of __add_message_to_team on st = [mem, reg, bl, added]: the
\* channel test, blocked_from_team with its lookup in the blacklist and
\* its eviction, belongs_to_team
listed_attempt(t, msg, st) ==
  IF msg.channel \notin channels[t] \/ ~message_is_command(t, msg)
    THEN st
    ELSE LET bl2 == IF t = ListedTeam
                      THEN UserList_message_in_list_cached(st.bl, msg)
                      ELSE st.bl
             blocked ==
               \/ in_blacklist(t, msg, st.bl)
               \/ (exclusive[t] /\ st.reg[msg.user] # NoTeam
                     /\ st.reg[msg.user] # t)
         IN  IF blocked
               THEN IF msg.user \in st.mem[t]
                      THEN [st EXCEPT !.bl = bl2,
                                      !.mem[t] = @ \ {msg.user},
                                      !.reg[msg.user] = NoTeam]
                      ELSE [st EXCEPT !.bl = bl2]
               ELSE IF belongs_to_team(t, msg, st.mem, user_whitelist)
                      THEN [st EXCEPT !.bl = bl2, !.added = t]
                      ELSE [st EXCEPT !.bl = bl2]

\* the calls of __add_message_to_team up to the first that returns True
RECURSIVE listed_route(_, _, _)
listed_route(cands, msg, st) ==
  IF cands = <<>> THEN st
  ELSE LET st2 == listed_attempt(Head(cands), msg, st)
       IN  IF st2.added # NoTeam THEN st2
           ELSE listed_route(Tail(cands), msg, st2)

\* add_message_to_assigned_team, and Team.add_message of the team that
\* took the message
route_listed ==
  /\ nextId <= MaxMsgsBlack
  /\ \E msg \in TaggedMessages(nextId) :
       LET st == listed_route(
                   candidates(registry, msg.user), msg,
                   [mem |-> members, reg |-> registry, bl |-> ul,
                    added |-> NoTeam])
           t == st.added
       IN  /\ ul' = st.bl
           /\ ret' = [NoRet EXCEPT !.op = "route", !.msg = msg,
                                    !.team = t, !.value = (t # NoTeam)]
           /\ IF t = NoTeam
                THEN /\ members' = st.mem
                     /\ registry' = st.reg
                     /\ UNCHANGED <<message_queue, hist>>
                ELSE IF is_spam(t, msg)
                  THEN /\ members' = st.mem
                       /\ registry' = st.reg
                       /\ hist' = [hist EXCEPT ![msg.id].spam = TRUE]
                       /\ UNCHANGED message_queue
                  ELSE /\ message_queue' =
                            [message_queue EXCEPT ![t] = deque_append(@, msg)]
                       /\ hist' = [hist EXCEPT ![msg.id] = Queued(@, t, msg)]
                       /\ members' = add_members(t, msg, st.mem)
                       /\ registry' = add_registry(t, msg, st.mem, st.reg)
  /\ nextId' = nextId + 1
  /\ UNCHANGED <<user_whitelist, user_blacklist, macros, envvars,
                 action_queue, message_queue_lock, action_queue_lock,
                 keep_running, loopvars, rt, refused, ul_nocache, actionset>>

\* cmd_addBlacklist: team.user_blacklist.add_to_list(user_or_group)
blacklist_add_to_list ==
  /\ \E entry \in BlacklistEntries :
       /\ ul' = add_to_list(ul, entry, {})
       /\ ret' = [NoRet EXCEPT !.op = "add_to_list", !.entry = entry]
  /\ UNCHANGED <<teamvars, envvars, message_queue, action_queue,
                 message_queue_lock, action_queue_lock, keep_running,
                 loopvars, rt, nextId, refused, hist, ul_nocache,
                 actionset>>

InitBlacklist ==
  /\ InitCommon
  /\ tpc = [t \in Teams |-> "new"]
  /\ epc = [t \in Teams |-> "new"]
  /\ spam_protection \in {[t \in Teams |-> b] : b \in BOOLEAN}
  /\ team_class = [t \in Teams |-> <<"Default">>]
  /\ accept_input = TRUE
  /\ random_action = FALSE

NextBlacklist ==
  \/ route_listed
  \/ blacklist_add_to_list
  \/ \E u \in Users : cmd_addWhitelist(ListedTeam, u)

SpecBlacklist == InitBlacklist /\ [][NextBlacklist]_vars

(***************************************************************************)
(* Properties.                                                             *)
(***************************************************************************)
ExclusiveTeamsOf(u) == {t \in Teams : exclusive[t] /\ u \in members[t]}

\* C1: when two router threads admit the same unassigned user to two
\* exclusive teams concurrently, exactly one admission wins: the user is a
\* member of at most one exclusive team and the registry names that team.
C1_OneAdmissionWins ==
  \A u \in Users :
    /\ Cardinality(ExclusiveTeamsOf(u)) <= 1
    /\ \A t \in ExclusiveTeamsOf(u) : registry[u] = t

\* C2: after any sequence of add_message, blocked_from_team, join_team,
\* leave_team and restore_snapshot calls from one thread, the registry maps
\* user u to exclusive team T if and only if u is in T.members.
C2_RegistryMatchesMembers ==
  \A u \in Users, t \in Teams :
    exclusive[t] => (registry[u] = t <=> u \in members[t])

\* C3 as claimed: the message-queue lock is never held while
\* translate_user_message_to_action runs.
C3_LockFreeWhileTranslating ==
  \A t \in Teams : tpc[t] = "translate" => ~message_queue_lock[t]

\* C3 as amended: the message-queue lock is held for the whole translate
\* step, the translation call included; while a translation runs, an
\* add_message on that team cannot enqueue.
C3_LockHeldWhileTranslating ==
  \A t \in Teams :
    /\ tpc[t] \in {"translate", "append", "clear"} <=> message_queue_lock[t]
    /\ tpc[t] = "translate" =>
         \A r \in Routers :
           (rt[r].pc = "enqueue" /\ rt[r].team = t) => ~ENABLED R_enqueue(r)

C3_Witness ==
  /\ tpc["A"] = "translate"
  /\ rt["r1"].pc = "enqueue"
  /\ rt["r1"].team = "A"

\* C4: when a translate step that produced an action releases the
\* message-queue lock, the message queue is empty and exactly one pair for
\* the popped message has been appended to the action queue.
C4_OneSurvivor ==
  [][\A t \in Teams :
       (tpc[t] = "clear" /\ tpc'[t] = "loop") =>
         /\ message_queue'[t] = <<>>
         /\ ~message_queue_lock'[t]
         /\ hist'[tmsg[t].id].appended = 1
         /\ hist'[tmsg[t].id].nil = FALSE]_vars

C4_Witness ==
  /\ message_queue["A"] = <<>>
  /\ ~message_queue_lock["A"]
  /\ \E i, j \in MsgIds :
       /\ i # j
       /\ hist[i].appended = 1
       /\ hist[j].mdrop

SamePending(t) ==
  \E i, j \in 1..Len(message_queue[t]) :
    /\ i < j
    /\ message_queue[t][i].user = message_queue[t][j].user
    /\ message_queue[t][i].message = message_queue[t][j].message

C6_FreshestWins ==
  [][\A t \in Teams :
       (tpc[t] = "pop" /\ tpc'[t] = "translate") =>
         /\ tmsg'[t] = message_queue[t][Len(message_queue[t])]
         /\ \A k \in 1..Len(message_queue'[t]) :
              message_queue'[t][k].id < tmsg'[t].id
         /\ \A j \in MsgIds :
              (j > tmsg'[t].id /\ hist[j].queued = t) => hist[j].nil]_vars

C6_Witness ==
  /\ tpc["A"] = "translate"
  /\ \E j \in MsgIds :
       j > tmsg["A"].id /\ hist[j].queued = "A" /\ hist[j].nil

\* C7: an execute step that finds pairs executes the most recently
\* enqueued one and discards the others, leaving the action queue empty; a
\* discarded pair is never executed.
C7_LastActionExecuted ==
  /\ [](\A i \in MsgIds :
          hist[i].adrop =>
            /\ hist[i].executed = 0
            /\ \A t \in Teams :
                 /\ efunc[t].msg.id # i
                 /\ \A k \in 1..Len(action_queue[t]) :
                      action_queue[t][k].msg.id # i)
  /\ [][\A t \in Teams :
          (epc[t] = "pop" /\ epc'[t] = "execute" /\ action_queue[t] # <<>>)
          => /\ efunc'[t] = action_queue[t][Len(action_queue[t])]
             /\ action_queue'[t] = <<>>]_vars

C7_Witness ==
  \E i, j \in MsgIds :
    /\ i < j
    /\ hist[i].adrop
    /\ hist[j].executed = 1

C9_FailStop ==
  /\ [](\A t \in Teams :
          refused[t] => (~keep_running[t] /\ epc[t] \in {"loop", "done"}))
  /\ [][\A t \in Teams :
          (refused'[t] /\ ~refused[t]) =>
            \A t2 \in Teams \ {t} :
              /\ keep_running'[t2] = keep_running[t2]
              /\ message_queue'[t2] = message_queue[t2]
              /\ action_queue'[t2] = action_queue[t2]]_vars

C9_Witness ==
  /\ refused["A"]
  /\ epc["A"] = "done"
  /\ keep_running["B"]
  /\ \E i \in MsgIds : hist[i].queued = "B" /\ hist[i].executed = 1

LiveIds == 1..MaxMsgsLive

\* a translatable message of a new user was appended to the queue of t
Admitted(i, t) == hist[i].queued = t /\ hist[i].valid /\ hist[i].fresh

\* a later message was appended to the same queue
LaterArrived(i, t) == \E j \in MsgIds : j > i /\ hist[j].queued = t

\* the user is a member, the registry points to t, the message was
\* translated, enqueued and executed exactly once, the queue is empty
Done(i, t) ==
  /\ hist[i].user \in members[t]
  /\ registry[hist[i].user] = t
  /\ hist[i].translated = 1
  /\ hist[i].appended = 1
  /\ hist[i].executed = 1
  /\ message_queue[t] = <<>>

C14_BlockedElsewhere ==
  [][\A r \in Routers :
       LET t == rt[r].team
           msg == rt[r].msg
       IN  (/\ rt[r].pc = "check"
            /\ rt'[r] # rt[r]
            /\ exclusive[t]
            /\ registry[msg.user] \notin {NoTeam, t}
            /\ exclusive[registry[msg.user]]
            /\ msg.user \notin members[t])
           => /\ class_blocked_from_team(t, msg, members, registry,
                                         user_whitelist, user_blacklist)
              /\ rt'[r].pc # "enqueue"
              /\ rt'[r].team # t
              /\ members' = members
              /\ registry' = registry
              /\ message_queue' = message_queue
              /\ action_queue' = action_queue
              /\ hist'[msg.id].queued = NoTeam]_vars

\* the message of a member of A is presented to B, which listens on the
\* channel and knows the command
C14_Witness ==
  /\ rt["r1"].pc = "check"
  /\ rt["r1"].team = "B"
  /\ registry[rt["r1"].msg.user] = "A"
  /\ rt["r1"].msg.user \in members["A"]
  /\ rt["r1"].msg.user \notin members["B"]
  /\ rt["r1"].msg.user \notin user_blacklist["B"]
  /\ reaches_blocked("B", rt["r1"].msg)

\* the user of the call recorded in ret is a member of t or whitelisted
Vouched(t, u) == u \in members[t] \/ u \in user_whitelist[t]

C16_ParentVerdictWins ==
  [][\A t \in Teams :
       call_belongs_to_team(t) =>
         LET msg == ret'.msg
             base == Team_belongs_to_team(t, msg, members, user_whitelist)
         IN  /\ ret'.op = "belongs_to_team"
             /\ ret'.team = t
             /\ base = IF Vouched(t, msg.user) THEN AbsolutelyTrue
                                               ELSE MaybeFalse
             /\ Vouched(t, msg.user) =>
                  (ret'.quad = AbsolutelyTrue /\ ret'.value)
             /\ (\A i \in 1..Len(team_class[t]) :
                   team_class[t][i] \notin overrides_belongs_to_team)
                  => ret'.quad = base]_vars

\* None_Team accepted a whitelisted user who is no member
C16_Witness ==
  /\ ret.op = "belongs_to_team"
  /\ ret.value
  /\ team_class[ret.team] = <<"None">>
  /\ ret.msg.user \in user_whitelist[ret.team]
  /\ ret.msg.user \notin members[ret.team]

\* C17: for a team whose class combines variants V1..Vn in any order, a
\* message of a user who is neither member nor whitelisted is accepted
\* only if the inclusion rule of every Vi accepts it, and is blocked if the
\* exclusion rule of any Vi blocks it.
C17_CombinedIsConjunction ==
  /\ [][\A t \in Teams :
          (call_belongs_to_team(t) /\ ~Vouched(t, ret'.msg.user)) =>
            (ret'.value =>
               \A i \in 1..Len(team_class[t]) :
                 team_class[t][i] \in overrides_belongs_to_team =>
                   bool(own_belongs_to_team(team_class[t][i], t, ret'.msg,
                                            members)))]_vars
  /\ [][\A t \in Teams :
          (call_blocked_from_team(t) /\ ~Vouched(t, ret'.msg.user)) =>
            ((\/ blocked_from_team(t, ret'.msg, registry, user_blacklist)
              \/ \E i \in 1..Len(team_class[t]) :
                   own_blocked_from_team(team_class[t][i], t, ret'.msg,
                                         members, user_whitelist))
             => ret'.value)]_vars

\* a combined class whose first variant accepts everybody rejected a user
\* because its second variant rejects
C17_Witness ==
  /\ ret.op = "belongs_to_team"
  /\ ~ret.value
  /\ team_class[ret.team] = <<"Default", "None">>
  /\ ~Vouched(ret.team, ret.msg.user)

\* the step is a whole routing call in which no team accepted the message
NoTeamAccepted == nextId' # nextId /\ is_routed(ret'.msg) /\ ~ret'.value

\* C11 as claimed: if no team accepts a routed message, every team's
\* message queue and members set and the registry are the same after the
\* call as before it.
C11_DroppedWithoutEffect ==
  [][NoTeamAccepted =>
       /\ message_queue' = message_queue
       /\ members' = members
       /\ registry' = registry]_vars

\* C11 as amended: if no team accepts a routed message, no message queue
\* changes and nobody is added to a members set or to the registry; the
\* only change is that a team whose blocked_from_team rejects the sender
\* while the sender is among its members evicts the sender from its
\* members and deletes the sender's registry entry.
C11_DroppedWithEvictionOnly ==
  [][NoTeamAccepted =>
       LET msg == ret'.msg
           u == msg.user
           evicting == {t \in Teams : u \in members[t] /\ u \notin members'[t]}
       IN  /\ message_queue' = message_queue
           /\ \A t \in Teams :
                members'[t] = IF t \in evicting THEN members[t] \ {u}
                                                ELSE members[t]
           /\ \A t \in evicting :
                /\ reaches_blocked(t, msg)
                /\ \/ u \in user_blacklist[t]
                   \/ (exclusive[t] /\ registry[u] \notin {NoTeam, t})
           /\ registry' = IF evicting = {} THEN registry
                                          ELSE [registry EXCEPT ![u] = NoTeam]]_vars

\* a member of team A whose second message no team accepted was evicted
C11_Witness ==
  /\ ret.op = "route" /\ ret.msg.id = 2 /\ ~ret.value
  /\ message_is_action(ret.msg)
  /\ hist[1].queued = "A" /\ hist[1].user = ret.msg.user
  /\ ret.msg.user \notin members["A"]
  /\ registry[ret.msg.user] = NoTeam
  /\ message_queue["A"] = <<[id |-> 1, user |-> ret.msg.user,
                             message |-> TxtLeft, channel |-> "#a"]>>

\* C13: if the accept-input toggle is off, or the text starts with no
\* registered action prefix, add_message_to_assigned_team changes no queue,
\* no members set and no registry entry.
C13_NotRoutedChangesNothing ==
  [][(nextId' # nextId /\ ~(accept_input /\ message_is_action(ret'.msg))) =>
       /\ message_queue' = message_queue
       /\ action_queue' = action_queue
       /\ members' = members
       /\ registry' = registry]_vars

\* with the toggle off, a blacklisted member's action message was presented
\* and the member is still a member
C13_Witness ==
  /\ ret.op = "route" /\ ret.msg.id = 2
  /\ ~accept_input
  /\ ret.msg.message = TxtLeft /\ ret.msg.channel = "#a"
  /\ ret.msg.user \in user_blacklist["A"]
  /\ ret.msg.user \in members["A"]
  /\ nextId = 3

\* the four conditions of the claim for team t and message msg, now
Fits(t, msg) ==
  /\ msg.channel \in channels[t]
  /\ message_is_command(t, msg)
  /\ ~(\/ msg.user \in user_blacklist[t]
       \/ (exclusive[t] /\ registry[msg.user] \notin {NoTeam, t}))
  /\ (msg.user \in members[t] \/ msg.user \in user_whitelist[t] \/
      team_class[t] = <<"Default">>)

Bounded(q, x) ==
  IF Len(q) = QueueLength THEN Tail(q) \o <<x>> ELSE q \o <<x>>

\* C18: the message queue and the action queue of a team never hold more
\* than queue_length entries; an append to a full queue evicts the oldest
\* entry and keeps the new one.
C18_QueuesBounded ==
  /\ [](\A t \in Teams : /\ Len(message_queue[t]) <= QueueLength
                          /\ Len(action_queue[t]) <= QueueLength)
  /\ [][\A t \in Teams :
          /\ (rt["r1"].pc = "enqueue" /\ rt["r1"].team = t /\
              rt'["r1"].pc = "member")
               => message_queue'[t] = Bounded(message_queue[t], rt["r1"].msg)
          /\ (tpc[t] = "append" /\ tpc'[t] = "clear")
               => action_queue'[t] =
                    Bounded(action_queue[t],
                            [msg |-> tmsg[t], func |-> tfunc[t]])]_vars

\* an action was appended to the full action queue of team A: the oldest
\* pair is gone without having been taken by the execute loop
C18_Witness ==
  /\ Len(action_queue["A"]) = QueueLength
  /\ \E i \in MsgIds :
       /\ hist[i].appended > 0
       /\ hist[i].executed = 0
       /\ ~hist[i].adrop
       /\ efunc["A"].msg.id # i
       /\ \A k \in 1..Len(action_queue["A"]) : action_queue["A"][k].msg.id # i
       /\ \A k \in 1..Len(action_queue["A"]) : action_queue["A"][k].msg.id > i

\* C19: the action-queue lock of a team is never held while the execute
\* loop is inside InputServer.execute; the translate loop of the team can
\* take the lock and append during the call.
C19_ExecuteOutsideLock ==
  \A t \in Teams :
    epc[t] = "execute" =>
      /\ ~action_queue_lock[t]
      /\ tpc[t] = "append" => ENABLED T_append(t)

\* while the execute loop of A runs the action of one message, the
\* translate loop has appended the action of a later message
C19_Witness ==
  /\ epc["A"] = "execute"
  /\ efunc["A"].msg.id # 0
  /\ tpc["A"] = "clear"
  /\ action_queue["A"] = <<[msg |-> tmsg["A"], func |-> tfunc["A"]]>>
  /\ tmsg["A"].id > efunc["A"].msg.id

IndepIds == 1..MaxMsgsIndep

\* C20: teams are independent: while InputServer.execute of team A does
\* not return, team B still admits messages (the router always finishes
\* its call), translates them and executes them.
C20_TeamsIndependent ==
  /\ (rt["r1"].pc # "idle") ~> (rt["r1"].pc = "idle")
  /\ \A i \in IndepIds :
       (hist[i].queued = "B" /\ hist[i].valid)
         ~> (hist[i].executed >= 1 \/ LaterArrived(i, "B"))
  /\ \A i \in IndepIds :
       (hist[i].queued = "A" /\ hist[i].valid)
         ~> (hist[i].appended >= 1 \/ LaterArrived(i, "A"))

\* team B has executed a message while team A is inside InputServer.execute
C20_Witness ==
  /\ epc["A"] = "execute"
  /\ \E i \in IndepIds :
       /\ hist[i].queued = "B"
       /\ hist[i].translated = 1
       /\ hist[i].executed = 1
  /\ epc["B"] = "loop"

\* C21: after stop_thread has set keep_running to false, the translate
\* loop and the execute loop of the team terminate (fair scheduling, the
\* call in progress returns); a loop that observes the flag false starts
\* no further iteration, and a loop that has ended stays ended.
C21_CooperativeStop ==
  /\ \A t \in Teams :
       (~keep_running[t]) ~> (tpc[t] = "done" /\ epc[t] = "done")
  /\ [][\A t \in Teams :
          /\ ~keep_running[t] => ~keep_running'[t]
          /\ (~keep_running[t] /\ tpc[t] = "loop" /\ tpc'[t] # "loop")
               => tpc'[t] = "done"
          /\ (~keep_running[t] /\ epc[t] = "loop" /\ epc'[t] # "loop")
               => epc'[t] = "done"
          /\ tpc[t] = "done" => tpc'[t] = "done"
          /\ epc[t] = "done" => epc'[t] = "done"]_vars

\* team A was stopped with a message waiting: both loops have ended and
\* the message is still in the queue
C21_Witness ==
  /\ ~keep_running["A"]
  /\ tpc["A"] = "done"
  /\ epc["A"] = "done"
  /\ message_queue["A"] # <<>>
  /\ ~refused["A"]

\* C22: for a user who is not in fixed_users, message_in_list returns true
\* only if some special group whose channel set contains the channel of
\* that very message matches the message's tags, also when caching is
\* enabled and the user was looked up before.
C22_GroupsPerChannel ==
  [][(/\ ret'.op = "message_in_list"
      /\ ret' # ret \/ ul' # ul
      /\ ret'.msg.user \notin ul.fixed_users
      /\ ret'.value)
       => \/ (ret'.msg.channel \in ul.special_groups["$mods"] /\
              ret'.msg.mod)
          \/ ret'.msg.channel \in ul.special_groups["$users"]]_vars

\* some configured group matches probe m in list l
GroupMatches(l, m) ==
  \/ (m.channel \in l.special_groups["$mods"] /\ m.mod)
  \/ m.channel \in l.special_groups["$users"]

\* list l does not report the user of probe m as included
NotReported(l, m) ==
  /\ ~UserList_message_in_list(l, m)
  /\ user_in_list(l, m.user) # "True"

\* C23: after remove_from_list of a literal user, a message of that user
\* that matches no configured group is not reported as included by
\* message_in_list, nor the user by user_in_list; after remove_from_list
\* of a group channel, no user outside fixed_users whose message in that
\* channel matches no remaining group is reported as included, whatever
\* was cached before.
C23_RemovalTakesEffect ==
  [][(ret'.op = "remove_from_list" /\ (ret' # ret \/ ul' # ul)) =>
       LET e == ret'.entry
           removed == IF e.chan # "" THEN {with_hash(e.chan)}
                                    ELSE ret'.args[1]
       IN  \A m \in Probes :
             IF e.kind = "user"
               THEN (m.user = lower(e.name) /\ ~GroupMatches(ul', m))
                      => NotReported(ul', m)
               ELSE (/\ m.user \notin ul'.fixed_users
                     /\ m.channel \in removed
                     /\ ~GroupMatches(ul', m))
                      => NotReported(ul', m)]_vars

\* $mods was removed for the channels of a team from a caching list that
\* has a fixed user: the cache is empty
C23_Witness ==
  /\ ret.op = "remove_from_list"
  /\ ret.entry.kind = "group" /\ ret.entry.group = "$mods"
  /\ ret.entry.chan = "" /\ ret.args = <<{"#a", "#b"}>>
  /\ ul.cache_users
  /\ ul.fixed_users = {"u1"}
  /\ ul.special_groups["$mods"] = {}
  /\ ul.special_groups["$users"] = {"#b"}
  /\ ul.known_users = {} /\ ul.included_users = {}

\* C24: importing export_dict() of the list into a fresh UserList yields a
\* list that returns the verdict of the original for every probe message.
C24_RoundTrip ==
  \A m \in Probes :
    UserList_message_in_list(ul, m) =
      UserList_message_in_list(
        import_dict(UserList(ul.cache_users), export_dict(ul)), m)

\* C25: restore_snapshot overwrites the team's runtime data: after
\* restore_snapshot(s) on a team in any prior state, create_snapshot()
\* returns the members, whitelist, blacklist and macros of s.
C25_RestoreOverwrites ==
  [][\A t \in Teams : \A snap \in Snapshots :
       restore_snapshot_from(t, snap) => create_snapshot(t)' = snap]_vars

\* the number of sub-actions the verbs before position k contribute
RECURSIVE Offset(_, _)
Offset(message, k) ==
  IF k <= 1 THEN 0
  ELSE Offset(message, k - 1) + Len(lookup_result(message[k - 1].verb))

\* value limited to [lo, hi]
Limited(lo, value, hi) ==
  IF value < lo THEN lo ELSE IF value > hi THEN hi ELSE value

\* P(verb parameters, parsed verb, sub-action, first default duration)
\* for every press sub-action of the translation recorded in ret
ForEachPress(P(_, _, _, _)) ==
  (ret.op = "translate_user_message_to_action" /\ ret.func # None) =>
    \A k \in 1..Len(ret.args) :
      LET vpl == lookup_result(ret.args[k].verb)
      IN  \A i \in 1..Len(vpl) :
            vpl[i].input_type = PRESS_KEY =>
              P(vpl[i], ret.args[k],
                ret.func.args_list[Offset(ret.args, k) + i],
                vpl[1].duration)

C26_Claimed(vp, r, a, first) ==
  a.duration =
    IF r.duration # 0
      THEN Limited(vp.min_time, r.duration + (vp.duration - first),
                   vp.max_time)
      ELSE vp.duration

C26_Amended(vp, r, a, first) ==
  LET delay == Limited(0, r.delay + vp.delay, vp.max_time)
      wanted == IF r.duration # 0 THEN r.duration + (vp.duration - first)
                                  ELSE vp.duration
      rest == vp.max_time - delay
  IN  /\ a.delay = delay
      /\ a.duration = IF rest >= vp.min_time
                        THEN Limited(vp.min_time, wanted, rest)
                        ELSE Limited(rest, wanted, vp.min_time)
      /\ (r.duration = 0 /\ delay + vp.duration <= vp.max_time)
           => a.duration = vp.duration

C27_Within(vp, r, a, first) ==
  /\ vp.min_time <= a.duration
  /\ a.duration <= vp.max_time
  /\ a.delay <= vp.max_time

\* C27: every press sub-action produced by the translation has
\* min_time <= duration <= max_time and delay <= max_time.
C27_ClampedTimes == ForEachPress(C27_Within)

\* C28: an unknown verb is skipped and the verbs after it are still
\* translated, each known verb contributing its sub-actions in order; the
\* result is None, never an empty list of sub-actions, when no verb of the
\* message resolves (or the message is no command).
C28_UnknownVerbSkipped ==
  ret.op = "translate_user_message_to_action" =>
    LET total == Offset(ret.args, Len(ret.args) + 1)
    IN  IF starts_with_action_prefix(ret.args) /\ total > 0
          THEN /\ ret.func # None
               /\ Len(ret.func.args_list) = total
               /\ \A k \in 1..Len(ret.args) :
                    \A i \in 1..Len(lookup_result(ret.args[k].verb)) :
                      ret.func.args_list[Offset(ret.args, k) + i].key =
                        lookup_result(ret.args[k].verb)[i].key
          ELSE ret.func = None

\* "+xyz +combo": the unknown verb is passed over, +combo is translated
C28_Witness ==
  /\ ret.op = "translate_user_message_to_action"
  /\ Len(ret.args) = 2
  /\ ret.args[1].verb = "+xyz"
  /\ ret.args[2].verb = "+combo"
  /\ ret.func # None
  /\ Len(ret.func.args_list) = 3

\* a macro of this name was added: add_macro stores it under the name and
\* under the prefixed name
MacroExists(name) ==
  /\ actionset.macro_dict[name] # <<>>
  /\ actionset.macro_dict[prefixed_name(name)] # <<>>

\* the cases of C29 in the state before a call with command msg
C29_Refused(op, msg) ==
  \/ ~actionset.allow_changing_macros
  \/ op = "add_macro" /\ MacroExists(macro_name(msg))
  \/ /\ op \in {"change_macro", "remove_macro"}
     /\ ~MacroExists(macro_name(msg))

C30_EmptyQueueFallback ==
  [][\A t \in Teams :
       (E_pop(t) /\ action_queue[t] = <<>>)
         => /\ efunc'[t].msg = NoMsg
            /\ efunc'[t].func.kind =
                 IF use_random_inputs[t] /\ random_action
                   THEN "random" ELSE "sleep"]_vars

\* with the toggle on, A (use_random_inputs) is about to run a random
\* action and B (no use_random_inputs) the sleep
C30_Witness ==
  /\ random_action
  /\ epc["A"] = "execute" /\ efunc["A"].func.kind = "random"
  /\ epc["B"] = "execute" /\ efunc["B"].func.kind = "sleep"

C39_WithinBudget(vp, r, a, first) == a.delay + a.duration <= vp.max_time

\* C39: delay and duration share one budget: every press sub-action
\* produced by the translation has delay + duration <= max_time.
C39_SharedBudget == ForEachPress(C39_WithinBudget)

\* C33: blocked_from_team on team t leaves every registry entry that names
\* another team as it is, also when the user is evicted from t.
C33_ForeignRegistryKept ==
  [][\A t \in Teams :
       call_blocked_from_team(t)
         => \A u \in Users :
              (registry[u] # NoTeam /\ registry[u] # t)
                => registry'[u] = registry[u]]_vars

\* C34: after clear_team_members no team has a member and no user is
\* assigned to a team in the registry.
C34_ClearRemovesEverybody ==
  [][clear_team_members
       => /\ \A t \in Teams : members'[t] = {}
          /\ \A u \in Users : registry'[u] = NoTeam]_vars

Count(mem, t) == Cardinality(mem[t])

\* C38: a new user admitted by the router to one of the Balancing teams
\* joins a team whose member count is the lowest at that moment, and the
\* member counts of the teams never differ by more than one.
C38_AutoBalancing ==
  /\ [](\A t1, t2 \in Teams : Count(members, t1) <= Count(members, t2) + 1)
  /\ [][\A t \in Teams :
          (members'[t] # members[t])
            => /\ ret'.team = t
               /\ members'[t] = members[t] \cup {ret'.msg.user}
               /\ \A t2 \in Teams : Count(members, t) <= Count(members, t2)
       ]_vars

\* both users were admitted, one to each team
C38_Witness ==
  /\ Count(members, "A") = 1
  /\ Count(members, "B") = 1
  /\ ret.op = "route"
  /\ ret.value
  /\ ret.team = "B"

\* C31: a Quadstate is truthy exactly for AbsolutelyTrue and MaybeTrue and
\* certain exactly for AbsolutelyTrue and AbsolutelyFalse, so every call of
\* belongs_to_team answers True exactly when the verdict of the class chain
\* is AbsolutelyTrue or MaybeTrue.
C31_QuadstateTruth ==
  /\ [](\A q \in {AbsolutelyTrue, MaybeTrue, AbsolutelyFalse, MaybeFalse} :
         /\ bool(q) <=> q \in {AbsolutelyTrue, MaybeTrue}
         /\ is_certain(q) <=> q \in {AbsolutelyTrue, AbsolutelyFalse})
  /\ [][\A t \in Teams :
          call_belongs_to_team(t) /\ ret'.team = t
            => (ret'.value <=>
                  _belongs_to_team(t, ret'.msg, members, user_whitelist)
                    \in {AbsolutelyTrue, MaybeTrue})
       ]_vars

\* belongs_to_team answered True on an uncertain verdict
C31_Witness ==
  /\ ret.op = "belongs_to_team"
  /\ ret.quad = MaybeTrue
  /\ ret.value

\* C37: every admitted message is handed to the translation at most once
\* and its action is executed at most once, and an action a team executes
\* that is not the fallback was translated from a message admitted to the
\* message queue of that team before.
C37_AtMostOnce ==
  /\ [](\A i \in MsgIds :
          /\ hist[i].translated <= 1
          /\ hist[i].appended <= 1
          /\ hist[i].executed <= 1
          /\ hist[i].translated >= 1 => hist[i].queued # NoTeam
          /\ hist[i].executed >= 1 => hist[i].translated = 1)
  /\ [][\A t \in Teams :
          /\ (tpc[t] = "translate" /\ tpc'[t] # "translate")
               => /\ hist[tmsg[t].id].queued = t
                  /\ hist[tmsg[t].id].translated = 0
          /\ (epc[t] = "execute" /\ epc'[t] # "execute"
                /\ efunc[t].msg.id # 0)
               => /\ hist[efunc[t].msg.id].queued = t
                  /\ hist[efunc[t].msg.id].translated = 1
                  /\ hist[efunc[t].msg.id].executed = 0
                  /\ efunc[t].func =
                       translate_user_message_to_action(t, efunc[t].msg)
       ]_vars

\* one message was translated and executed once, a second one was
\* translated once to no action and a third one is still in the queue
C37_Witness ==
  \E i, j, k \in MsgIds :
    /\ hist[i].queued = "A" /\ hist[i].translated = 1
    /\ hist[i].executed = 1
    /\ hist[j].queued = "A" /\ hist[j].translated = 1 /\ hist[j].nil
    /\ k \in Ids(message_queue["A"])

\* the translate thread of team t waits for a lock another thread holds
TranslateBlocked(t) ==
  \/ tpc[t] = "pop" /\ message_queue_lock[t]
  \/ tpc[t] = "append" /\ action_queue_lock[t]

\* the execute thread of team t waits for action_queue_lock
ExecuteBlocked(t) == epc[t] = "loop" /\ action_queue_lock[t]

\* an add_message caller waits for message_queue_lock of team t
RouterBlocked(r, t) ==
  rt[r].pc = "enqueue" /\ rt[r].team = t /\ message_queue_lock[t]

\* C32: the loops and the add_message callers of a team are never all
\* blocked on locks: message_queue_lock is held only inside a translate
\* step and action_queue_lock only inside an execute step (or for the one
\* append of a translate step), a thread that waits for a lock waits for a
\* thread that is not waiting, action_queue_lock is never held when
\* message_queue_lock is acquired by its holder, and a step that ends,
\* by its early return and its empty-queue path too, holds no lock.
C32_NoDeadlock ==
  /\ [](\A t \in Teams :
          /\ message_queue_lock[t]
               <=> tpc[t] \in {"translate", "append", "clear"}
          /\ action_queue_lock[t] <=> epc[t] = "pop"
          /\ ~(TranslateBlocked(t) /\ ExecuteBlocked(t))
          /\ TranslateBlocked(t) => tpc[t] = "append" /\ ENABLED E_pop(t)
          /\ ~ExecuteBlocked(t)
          /\ \A r \in Routers :
               RouterBlocked(r, t)
                 => \/ ENABLED T_translate(t)
                    \/ ENABLED T_clear(t)
                    \/ ENABLED T_append(t)
                    \/ ENABLED E_pop(t))
  /\ [][\A t \in Teams :
          /\ (~message_queue_lock[t] /\ message_queue_lock'[t])
               => tpc[t] = "pop" /\ tpc'[t] = "translate"
          /\ (~action_queue_lock[t] /\ action_queue_lock'[t])
               => epc[t] = "loop" /\ epc'[t] = "pop"
          /\ (tpc[t] = "translate" /\ tpc'[t] = "loop")
               => ~message_queue_lock'[t]
          /\ (tpc[t] = "pop" /\ tpc'[t] = "loop")
               => ~message_queue_lock'[t]
          /\ (epc[t] = "pop" /\ epc'[t] = "execute")
               => ~action_queue_lock'[t]
       ]_vars

\* the translate thread holds message_queue_lock and waits for
\* action_queue_lock, an add_message caller waits for message_queue_lock,
\* and the execute thread is inside its with block
C32_Witness ==
  /\ TranslateBlocked("A")
  /\ RouterBlocked("r1", "A")
  /\ epc["A"] = "pop"
  /\ message_queue_lock["A"]
  /\ action_queue_lock["A"]

\* C35: when every user writes in one channel with one set of tags, after
\* any sequence of add_to_list, remove_from_list, import_dict,
\* message_in_list and user_in_list calls the caching UserList gives every
\* message the verdict the UserList without cache gives it.
C35_CacheCoherence ==
  /\ \A msg \in SteadyProbes :
       UserList_message_in_list(ul, msg)
         = UserList_message_in_list(ul_nocache, msg)
  /\ ret.op = "message_in_list" => (ret.value <=> ret.tri = "True")

\* both lists were asked about a user that only a group brings in, the
\* caching list has the verdict in its cache
C35_Witness ==
  /\ ret.op = "message_in_list"
  /\ ret.value
  /\ ret.msg.user \in ul.known_users
  /\ ret.msg.user \notin ul.fixed_users
  /\ ul.cache_users
  /\ ~ul_nocache.cache_users

\* the blacklist holds the sender of msg, or a group that matches msg
OnBlacklist(l, msg) ==
  msg.user \in l.fixed_users \/ is_in_any_subgroup(l, msg)

\* C36: once add_to_list has put a user, or a group matching the user's
\* message, on the blacklist of a team, the router does not enqueue that
\* message into the team's message queue and the user is no member of the
\* team after the message has been checked, whatever the whitelist, the
\* members and the cache of the blacklist were before.
C36_BlacklistEnforced ==
  [][(route_listed /\ OnBlacklist(ul, ret'.msg))
       => /\ hist'[ret'.msg.id].queued # ListedTeam
          /\ ret'.team # ListedTeam
          /\ ret'.msg.user \notin members'[ListedTeam]
    ]_vars

=============================================================================
